--------------------------- MODULE AssemblerProofs ---------------------------
(***************************************************************************)
(* Proofs about Assembler that hold for every source file and every set of *)
(* targets: the profile an instruction is assembled for fits the object;   *)
(* and the bytes, fixups and relocations of the section are in order.      *)
(***************************************************************************)
EXTENDS Assembler, DisassemblerProofs, FiniteSetTheorems

\* A set of features fits the address size of the object.
FitsTarget(feats) == feats \cap Profiles32 # {} => ~target.is64

\* The inductive invariant: the features in force fit the target as well as those
\* of each line assembled, the header is the one of the features the target streamer
\* was made with, and a line was matched under the features it is listed with.
ProfileInv ==
  /\ header = HeaderFlags(target.features)
  /\ FitsTarget(features)
  /\ \E S : listing \in Seq(S)
  /\ \A k \in 1 .. Len(listing) :
       /\ FitsTarget(listing[k].features)
       /\ Available(listing[k].statement.name, listing[k].features)

\* The processors named by .cpu and .arch: exactly tritium-v1 and axium-m-v1 have the
\* features of a 32-bit profile, and the directives accept them in 32-bit objects only.
LEMMA CPUProfile ==
  ASSUME NEW cpu, cpu \notin {"tritium-v1", "axium-m-v1"}
  PROVE  CPUFeatures(cpu) \cap Profiles32 = {}
  BY DEF CPUFeatures, Profiles32

\* The first state: the target's own features.
LEMMA ProfileInit == AsmInit => ProfileInv
<1> SUFFICES ASSUME AsmInit PROVE ProfileInv
  OBVIOUS
<1>1. FitsTarget(features)
  BY TargetsAssumption DEF AsmInit, FitsTarget
<1>2. listing \in Seq({}) /\ Len(listing) = 0
  BY DEF AsmInit
<1>3. header = HeaderFlags(target.features)
  BY DEF AsmInit
<1> QED
  BY <1>1, <1>2, <1>3 DEF ProfileInv

\* A step that keeps the target, the features, the header and the listing.
LEMMA ProfileKept ==
  ASSUME ProfileInv, UNCHANGED <<target, features, header, listing>>
  PROVE  ProfileInv'
  BY DEF ProfileInv, FitsTarget

\* .cpu and .arch replace the features only when the processor fits the target.
LEMMA DirectiveKeeps ==
  ASSUME ProfileInv, NEW s, parseCPUOrArchDirective(s)
  PROVE  ProfileInv'
<1>1. UNCHANGED <<target, header, listing>>
  BY DEF parseCPUOrArchDirective
<1>2. FitsTarget(features)'
  <2> DEFINE cpu == IF s.kind = ".cpu" THEN s.name ELSE ArchCPU(s.name)
  <2>1. CASE UNCHANGED features
    BY <1>1, <2>1 DEF ProfileInv, FitsTarget
  <2>2. CASE /\ (cpu \in {"tritium-v1", "axium-m-v1"}) # target.is64
             /\ features' = CPUFeatures(cpu)
    <3>1. CASE cpu \in {"tritium-v1", "axium-m-v1"}
      BY <1>1, <2>2, <3>1 DEF FitsTarget
    <3>2. CASE cpu \notin {"tritium-v1", "axium-m-v1"}
      BY <1>1, <2>2, <3>2, CPUProfile DEF FitsTarget
    <3> QED
      BY <3>1, <3>2
  <2> QED
    BY <2>1, <2>2 DEF parseCPUOrArchDirective
<1> QED
  BY <1>1, <1>2 DEF ProfileInv, FitsTarget

\* An instruction is listed with the features it was matched under, or not at all.
LEMMA InstructionKeeps ==
  ASSUME ProfileInv, NEW s, assembleInstruction(s)
  PROVE  ProfileInv'
<1>1. UNCHANGED <<target, features, header>>
  BY DEF assembleInstruction
<1>2. CASE UNCHANGED listing
  BY <1>1, <1>2, ProfileKept
<1>3. CASE /\ Available(s.name, features)
           /\ \E entry : /\ entry.statement = s /\ entry.features = features
                         /\ listing' = Append(listing, entry)
  <2>1. PICK entry : /\ entry.statement = s /\ entry.features = features
                     /\ listing' = Append(listing, entry)
    BY <1>3
  <2>2. PICK S : listing \in Seq(S)
    BY DEF ProfileInv
  <2>3. listing \in Seq(S \cup {entry}) /\ listing' \in Seq(S \cup {entry})
    BY <2>1, <2>2
  <2>4. /\ Len(listing') = Len(listing) + 1
        /\ \A k \in 1 .. Len(listing') :
             listing'[k] = IF k <= Len(listing) THEN listing[k] ELSE entry
    BY <2>1, <2>3
  <2>5. ASSUME NEW k \in 1 .. Len(listing')
        PROVE  /\ FitsTarget(listing[k].features)'
               /\ Available(listing'[k].statement.name, listing'[k].features)
    <3>1. CASE k <= Len(listing)
      <4>1. k \in 1 .. Len(listing) /\ listing'[k] = listing[k]
        BY <2>3, <2>4, <2>5, <3>1
      <4> QED
        BY <1>1, <4>1 DEF ProfileInv, FitsTarget
    <3>2. CASE ~(k <= Len(listing))
      <4>1. listing'[k] = entry
        BY <2>4, <2>5, <3>2
      <4> QED
        BY <1>1, <1>3, <2>1, <4>1 DEF ProfileInv, FitsTarget
    <3> QED
      BY <3>1, <3>2
  <2>6. header' = HeaderFlags(target'.features) /\ FitsTarget(features)'
    BY <1>1 DEF ProfileInv, FitsTarget
  <2> QED
    BY <2>3, <2>5, <2>6 DEF ProfileInv
<1> QED
  BY <1>2, <1>3 DEF assembleInstruction, EmitInstruction

\* Every step keeps the invariant; only a directive changes the features and only an
\* instruction the listing.
LEMMA ProfileStep == ProfileInv /\ [AsmNext]_vars => ProfileInv'
<1> SUFFICES ASSUME ProfileInv, [AsmNext]_vars PROVE ProfileInv'
  OBVIOUS
<1>1. ASSUME NEW s, parseModeDirective(s) PROVE ProfileInv'
  BY <1>1, ProfileKept DEF parseModeDirective
<1>2. ASSUME NEW s, DefineLabel(s) PROVE ProfileInv'
  BY <1>2, ProfileKept DEF DefineLabel
<1>3. CASE ParseStatement
  BY <1>1, <1>2, <1>3, DirectiveKeeps, InstructionKeeps DEF ParseStatement
<1>4. CASE EndOfFile
  BY <1>4, ProfileKept DEF EndOfFile, sourceVars
<1>5. CASE ApplyFixup
  BY <1>5, ProfileKept DEF ApplyFixup, sourceVars
<1>6. CASE WriteObject
  BY <1>6, ProfileKept DEF WriteObject, sourceVars
<1>7. CASE DisassembleOne
  BY <1>7, ProfileKept DEF DisassembleOne, ReadOne, sourceVars
<1>8. CASE FetchOne
  BY <1>8, ProfileKept DEF FetchOne, ReadOne, sourceVars
<1>9. CASE UNCHANGED vars
  BY <1>9, ProfileKept DEF vars, sourceVars
<1> QED
  BY <1>3, <1>4, <1>5, <1>6, <1>7, <1>8, <1>9 DEF AsmNext

\* What the invariant says of the object: an instruction matched under the features
\* of the target is a window operation only if the header names the windowed ABI.
LEMMA ProfileInvImplies == ProfileInv => ProfileMatchesObject
<1> SUFFICES ASSUME ProfileInv PROVE ProfileMatchesObject
  OBVIOUS
<1>1. \A k \in 1 .. Len(listing) : FitsTarget(listing[k].features)
  BY DEF ProfileInv
<1>2. ASSUME NEW k \in 1 .. Len(listing), listing[k].features = target.features,
             listing[k].statement.name = "WINNEW"
      PROVE  EF_SB_WINDOWED_ABI \in header
  <2>1. "register-windows" \in target.features
    BY <1>2 DEF ProfileInv, Available
  <2>2. EF_SB_WINDOWED_ABI \in HeaderFlags(target.features)
    BY <2>1 DEF HeaderFlags
  <2> QED
    BY <2>2 DEF ProfileInv
<1> QED
  BY <1>1, <1>2 DEF ProfileMatchesObject, FitsTarget

\* For every source file, every target and every number of lines: no instruction of a
\* 32-bit profile gets into a 64-bit object, and without directives an object with
\* window operations is marked for the windowed ABI (parseCPUOrArchDirective,
\* SeaBirdTargetELFStreamer).
THEOREM ProfilesCorrect == AsmSpec => []ProfileMatchesObject
<1>1. ProfileInv /\ [AsmNext]_vars => ProfileInv'
  BY ProfileStep
<1> QED
  BY <1>1, ProfileInit, ProfileInvImplies, PTL DEF AsmSpec

-----------------------------------------------------------------------------
(* The operands of a statement, as the matcher hands them to the emitter.  *)
Join(s, t) == s \o t
Joins(u, s, t, m, n, V) ==
  /\ u \in Seq(V) /\ Len(u) = m + n
  /\ \A j \in 1 .. m : u[j] = s[j]
  /\ \A j \in 1 .. n : u[m + j] = t[j]

\* Two parts one after the other keep their elements.
LEMMA Joined ==
  ASSUME NEW V, NEW s \in Seq(V), NEW t \in Seq(V), NEW m, NEW n, Len(s) = m, Len(t) = n
  PROVE Joins(Join(s, t), s, t, m, n, V)
<1>1. s \o t \in Seq(V) /\ Len(s \o t) = Len(s) + Len(t)
  BY ConcatProperties
<1>2. Len(s) \in Nat /\ Len(t) \in Nat
  OBVIOUS
<1>3. ASSUME NEW j \in 1 .. Len(s) PROVE (s \o t)[j] = s[j]
  BY <1>2, ConcatProperties
<1>4. ASSUME NEW j \in 1 .. Len(t) PROVE (s \o t)[Len(s) + j] = t[j]
  BY <1>2, ConcatProperties
<1> QED
  BY <1>1, <1>3, <1>4 DEF Join, Joins

\* FlattenSeq of at most four pieces.
LEMMA FlatFour ==
  ASSUME NEW p, NEW n \in 1 .. 4, Len(p) = n
  PROVE /\ n = 1 => FlattenSeq(p) = p[1]
        /\ n = 2 => FlattenSeq(p) = Join(p[1], p[2])
        /\ n = 3 => FlattenSeq(p) = Join(Join(p[1], p[2]), p[3])
        /\ n = 4 => FlattenSeq(p) = Join(Join(Join(p[1], p[2]), p[3]), p[4])
<1> DEFINE IsF(g) == g = [i \in 1 .. Len(p) |-> IF i = 1 THEN p[i] ELSE Join(g[i - 1], p[i])]
           f == [i \in 1 .. n |-> IF i = 1 THEN p[1] ELSE IF i = 2 THEN Join(p[1], p[2])
                                  ELSE IF i = 3 THEN Join(Join(p[1], p[2]), p[3])
                                  ELSE Join(Join(Join(p[1], p[2]), p[3]), p[4])]
<1>1. IsF(f)
  <2>1. ASSUME NEW i \in 1 .. n
        PROVE f[i] = IF i = 1 THEN p[i] ELSE Join(f[i - 1], p[i])
    <3>1. i = 1 \/ i = 2 \/ i = 3 \/ i = 4
      OBVIOUS
    <3>2. CASE i = 1
      BY <3>2
    <3>3. CASE i = 2
      BY <3>3
    <3>4. CASE i = 3
      BY <3>4
    <3>5. CASE i = 4
      BY <3>5
    <3> QED
      BY <3>1, <3>2, <3>3, <3>4, <3>5
  <2>2. f = [i \in 1 .. n |-> f[i]]
    OBVIOUS
  <2> HIDE DEF f
  <2>3. f = [i \in 1 .. n |-> IF i = 1 THEN p[i] ELSE Join(f[i - 1], p[i])]
    BY <2>1, <2>2
  <2> QED
    BY <2>3
<1>2. PICK g : g = (CHOOSE h : IsF(h))
  OBVIOUS
<1>3. IsF(g)
  BY <1>1, <1>2
<1>4. FlattenSeq(p) = g[n]
  BY <1>2 DEF FlattenSeq, Join
<1>5. /\ g[1] = p[1]
      /\ n >= 2 => g[2] = Join(g[1], p[2])
      /\ n >= 3 => g[3] = Join(g[2], p[3])
      /\ n >= 4 => g[4] = Join(g[3], p[4])
  <2>1. \A i \in 1 .. n : g[i] = IF i = 1 THEN p[i] ELSE Join(g[i - 1], p[i])
    BY <1>3
  <2>2. g[1] = p[1]
    BY <2>1
  <2>3. n >= 2 => g[2] = Join(g[1], p[2])
    BY <2>1
  <2>4. n >= 3 => g[3] = Join(g[2], p[3])
    BY <2>1
  <2>5. n >= 4 => g[4] = Join(g[3], p[4])
    BY <2>1
  <2> QED
    BY <2>2, <2>3, <2>4, <2>5
<1> HIDE DEF IsF, f
<1> QED
  BY <1>4, <1>5

Flattened(f, p, kinds, n, V) ==
  /\ f \in Seq(V) /\ Len(f) = Place(kinds, n + 1)
  /\ \A k \in 1 .. n : \A j \in 1 .. Size(kinds, k) : f[Place(kinds, k) + j] = p[k][j]

\* Each piece is found after the ones before it.
LEMMA FlatPlaces ==
  ASSUME NEW V, NEW kinds, NEW p, NEW n \in 0 .. 4, Len(p) = n, n = 0 => p = <<>>,
         \A k \in 1 .. n : p[k] \in Seq(V) /\ Len(p[k]) = Size(kinds, k)
  PROVE Flattened(FlattenSeq(p), p, kinds, n, V)
<1> SUFFICES
      /\ FlattenSeq(p) \in Seq(V) /\ Len(FlattenSeq(p)) = Place(kinds, n + 1)
      /\ \A k \in 1 .. n : \A j \in 1 .. Size(kinds, k) :
           FlattenSeq(p)[Place(kinds, k) + j] = p[k][j]
  BY DEF Flattened
<1>0. CASE n = 0
  <2>1. FlattenSeq(p) = <<>>
    BY <1>0 DEF FlattenSeq
  <2>2. Place(kinds, n + 1) = 0
    BY <1>0 DEF Place
  <2> QED
    BY <1>0, <2>1, <2>2
<1>1. CASE n = 1
  <2>1. PICK a : a = p[1]
    OBVIOUS
  <2>2. FlattenSeq(p) = a /\ a \in Seq(V) /\ Len(a) = Size(kinds, 1)
    BY <1>1, <2>1, FlatFour
  <2>3. Place(kinds, 1) = 0 /\ Place(kinds, 2) = Size(kinds, 1)
    BY DEF Place, Size
  <2>4. \A j \in 1 .. Size(kinds, 1) : a[0 + j] = a[j]
    BY DEF Size
  <2> QED
    BY <1>1, <2>1, <2>2, <2>3, <2>4
<1>2. CASE n = 2
  <2>1. PICK a, b, s1, s2 : a = p[1] /\ b = p[2] /\ s1 = Size(kinds, 1) /\ s2 = Size(kinds, 2)
    OBVIOUS
  <2>2. /\ FlattenSeq(p) = Join(a, b) /\ a \in Seq(V) /\ Len(a) = s1 /\ b \in Seq(V) /\ Len(b) = s2
        /\ s1 \in Nat /\ s2 \in Nat
    BY <1>2, <2>1, FlatFour DEF Size
  <2>3. Place(kinds, 1) = 0 /\ Place(kinds, 2) = s1 /\ Place(kinds, 3) = s1 + s2
    BY <2>1, <2>2 DEF Place
  <2>4. /\ Join(a, b) \in Seq(V) /\ Len(Join(a, b)) = s1 + s2
        /\ \A j \in 1 .. s1 : Join(a, b)[j] = a[j]
        /\ \A j \in 1 .. s2 : Join(a, b)[s1 + j] = b[j]
    <3>1. Joins(Join(a, b), a, b, s1, s2, V)
      BY <2>2, Joined
    <3> QED
      BY <3>1 DEF Joins
  <2>5. \A j \in 1 .. s1 : Join(a, b)[0 + j] = a[j]
    BY <2>2, <2>4
  <2> QED
    BY <1>2, <2>1, <2>2, <2>3, <2>4, <2>5
<1>3. CASE n = 3
  <2>1. PICK a, b, c, s1, s2, s3 :
          /\ a = p[1] /\ b = p[2] /\ c = p[3]
          /\ s1 = Size(kinds, 1) /\ s2 = Size(kinds, 2) /\ s3 = Size(kinds, 3)
    OBVIOUS
  <2>2. /\ FlattenSeq(p) = Join(Join(a, b), c)
        /\ a \in Seq(V) /\ Len(a) = s1 /\ b \in Seq(V) /\ Len(b) = s2
        /\ c \in Seq(V) /\ Len(c) = s3 /\ s1 \in Nat /\ s2 \in Nat /\ s3 \in Nat
    BY <1>3, <2>1, FlatFour DEF Size
  <2>3. /\ Place(kinds, 1) = 0 /\ Place(kinds, 2) = s1 /\ Place(kinds, 3) = s1 + s2
        /\ Place(kinds, 4) = (s1 + s2) + s3
    BY <2>1, <2>2 DEF Place
  <2>4. PICK d, e : d = Join(a, b) /\ e = Join(d, c)
    OBVIOUS
  <2>11. s1 + s2 \in Nat /\ (s1 + s2) + s3 \in Nat
    BY <2>2
  <2>5. /\ d \in Seq(V) /\ Len(d) = s1 + s2
        /\ \A j \in 1 .. s1 : d[j] = a[j]
        /\ \A j \in 1 .. s2 : d[s1 + j] = b[j]
    <3>1. Joins(d, a, b, s1, s2, V)
      BY <2>2, <2>4, Joined
    <3> QED
      BY <3>1 DEF Joins
  <2>6. /\ e \in Seq(V) /\ Len(e) = (s1 + s2) + s3
        /\ \A j \in 1 .. s1 + s2 : e[j] = d[j]
        /\ \A j \in 1 .. s3 : e[(s1 + s2) + j] = c[j]
    <3>1. Joins(e, d, c, s1 + s2, s3, V)
      BY <2>2, <2>4, <2>5, <2>11, Joined
    <3> QED
      BY <3>1 DEF Joins
  <2>7. \A j \in 1 .. s1 : e[0 + j] = a[j]
    BY <2>2, <2>5, <2>6
  <2>8. \A j \in 1 .. s2 : e[s1 + j] = b[j]
    BY <2>2, <2>5, <2>6
  <2>20. ASSUME NEW k \in 1 .. 3, NEW j \in 1 .. Size(kinds, k)
         PROVE FlattenSeq(p)[Place(kinds, k) + j] = p[k][j]
    <3>0. k = 1 \/ k = 2 \/ k = 3
      OBVIOUS
    <3>1. CASE k = 1
      BY <3>1, <2>1, <2>2, <2>3, <2>4, <2>6, <2>7, <2>8
    <3>2. CASE k = 2
      BY <3>2, <2>1, <2>2, <2>3, <2>4, <2>6, <2>7, <2>8
    <3>3. CASE k = 3
      BY <3>3, <2>1, <2>2, <2>3, <2>4, <2>6, <2>7, <2>8
    <3> QED
      BY <3>0, <3>1, <3>2, <3>3
  <2> QED
    BY <1>3, <2>2, <2>3, <2>4, <2>20, <2>6
<1>4. CASE n = 4
  <2>1. PICK a, b, c, q, s1, s2, s3, s4 :
          /\ a = p[1] /\ b = p[2] /\ c = p[3] /\ q = p[4]
          /\ s1 = Size(kinds, 1) /\ s2 = Size(kinds, 2) /\ s3 = Size(kinds, 3)
          /\ s4 = Size(kinds, 4)
    OBVIOUS
  <2>2. /\ FlattenSeq(p) = Join(Join(Join(a, b), c), q)
        /\ a \in Seq(V) /\ Len(a) = s1 /\ b \in Seq(V) /\ Len(b) = s2
        /\ c \in Seq(V) /\ Len(c) = s3 /\ q \in Seq(V) /\ Len(q) = s4
        /\ s1 \in Nat /\ s2 \in Nat /\ s3 \in Nat /\ s4 \in Nat
    BY <1>4, <2>1, FlatFour DEF Size
  <2>3. /\ Place(kinds, 1) = 0 /\ Place(kinds, 2) = s1 /\ Place(kinds, 3) = s1 + s2
        /\ Place(kinds, 4) = (s1 + s2) + s3 /\ Place(kinds, 5) = ((s1 + s2) + s3) + s4
    BY <2>1, <2>2 DEF Place
  <2>4. PICK d, e, f : d = Join(a, b) /\ e = Join(d, c) /\ f = Join(e, q)
    OBVIOUS
  <2>11. s1 + s2 \in Nat /\ (s1 + s2) + s3 \in Nat
    BY <2>2
  <2>5. /\ d \in Seq(V) /\ Len(d) = s1 + s2
        /\ \A j \in 1 .. s1 : d[j] = a[j]
        /\ \A j \in 1 .. s2 : d[s1 + j] = b[j]
    <3>1. Joins(d, a, b, s1, s2, V)
      BY <2>2, <2>4, Joined
    <3> QED
      BY <3>1 DEF Joins
  <2>6. /\ e \in Seq(V) /\ Len(e) = (s1 + s2) + s3
        /\ \A j \in 1 .. s1 + s2 : e[j] = d[j]
        /\ \A j \in 1 .. s3 : e[(s1 + s2) + j] = c[j]
    <3>1. Joins(e, d, c, s1 + s2, s3, V)
      BY <2>2, <2>4, <2>5, <2>11, Joined
    <3> QED
      BY <3>1 DEF Joins
  <2>7. /\ f \in Seq(V) /\ Len(f) = ((s1 + s2) + s3) + s4
        /\ \A j \in 1 .. (s1 + s2) + s3 : f[j] = e[j]
        /\ \A j \in 1 .. s4 : f[((s1 + s2) + s3) + j] = q[j]
    <3>1. Joins(f, e, q, (s1 + s2) + s3, s4, V)
      BY <2>2, <2>4, <2>6, <2>11, Joined
    <3> QED
      BY <3>1 DEF Joins
  <2>8. \A j \in 1 .. s1 : f[0 + j] = a[j]
    BY <2>2, <2>5, <2>6, <2>7
  <2>9. \A j \in 1 .. s2 : f[s1 + j] = b[j]
    BY <2>2, <2>5, <2>6, <2>7
  <2>10. ASSUME NEW j \in 1 .. s3 PROVE f[(s1 + s2) + j] = c[j]
    <3>1. (s1 + s2) + j \in 1 .. (s1 + s2) + s3
      BY <2>2
    <3> QED
      BY <3>1, <2>6, <2>7
  <2>20. ASSUME NEW k \in 1 .. 4, NEW j \in 1 .. Size(kinds, k)
         PROVE FlattenSeq(p)[Place(kinds, k) + j] = p[k][j]
    <3>0. k = 1 \/ k = 2 \/ k = 3 \/ k = 4
      OBVIOUS
    <3>1. CASE k = 1
      BY <3>1, <2>1, <2>2, <2>3, <2>4, <2>7, <2>8, <2>9, <2>10
    <3>2. CASE k = 2
      BY <3>2, <2>1, <2>2, <2>3, <2>4, <2>7, <2>8, <2>9, <2>10
    <3>3. CASE k = 3
      BY <3>3, <2>1, <2>2, <2>3, <2>4, <2>7, <2>8, <2>9, <2>10
    <3>4. CASE k = 4
      BY <3>4, <2>1, <2>2, <2>3, <2>4, <2>7, <2>8, <2>9, <2>10
    <3> QED
      BY <3>0, <3>1, <3>2, <3>3, <3>4
  <2> QED
    BY <1>4, <2>2, <2>3, <2>4, <2>20, <2>7
<1> QED
  BY <1>0, <1>1, <1>2, <1>3, <1>4

-----------------------------------------------------------------------------
(* What the parser makes of the operands of a statement.                   *)

\* A term with an index register names one of the general registers.
LEMMA TermRegister ==
  ASSUME NEW t \in Terms, IsIndex(t)
  PROVE t.reg \in 0 .. 31
<1>1. CASE t \in [reg : 0 .. 31, scale : Nat \cup {NoScale}, negative : BOOLEAN]
  BY <1>1
<1>2. CASE t \in [value : Nat, negative : BOOLEAN]
  <2>1. DOMAIN t = {"value", "negative"}
    BY <1>2
  <2> QED
    BY <2>1 DEF IsIndex
<1> QED
  BY <1>1, <1>2 DEF Terms

\* The indices parseMemoryOperand counts are the terms before the first constant.
LEMMA IndexPrefix ==
  ASSUME NEW terms \in Seq(Terms), NEW indices,
         indices = Cardinality({k \in 1 .. Len(terms) : \A j \in 1 .. k : IsIndex(terms[j])})
  PROVE /\ indices \in 0 .. Len(terms) /\ (indices # 0 => IsIndex(terms[indices]))
        /\ \A k \in 1 .. indices : IsIndex(terms[k])
<1> DEFINE S == {k \in 1 .. Len(terms) : \A j \in 1 .. k : IsIndex(terms[j])}
           T == {k \in 1 .. Len(terms) : ~IsIndex(terms[k])}
<1>0. Len(terms) \in Nat
  OBVIOUS
<1>1. ASSUME NEW m \in 0 .. Len(terms), S = 1 .. m PROVE indices = m
  <2>1. Cardinality(1 .. m) = m
    BY <1>0, FS_Interval
  <2> QED
    BY <1>1, <2>1
<1>2. CASE T = {}
  <2>1. S = 1 .. Len(terms)
    BY <1>0, <1>2
  <2>2. indices = Len(terms)
    BY <1>0, <1>1, <2>1
  <2>3. \A k \in 1 .. Len(terms) : IsIndex(terms[k])
    BY <1>2
  <2> HIDE DEF S, T
  <2>4. PICK n : n = Len(terms)
    OBVIOUS
  <2>5. n \in Nat /\ n \in 0 .. n /\ (n # 0 => n \in 1 .. n)
    BY <1>0, <2>4
  <2>6. n # 0 => IsIndex(terms[n])
    BY <2>3, <2>4, <2>5
  <2>7. \A k \in 1 .. indices : IsIndex(terms[k])
    BY <2>2, <2>3
  <2> QED
    BY <2>2, <2>4, <2>5, <2>6, <2>7
<1>3. CASE T # {}
  <2>1. T \in SUBSET Nat
    BY <1>0
  <2>2. PICK x \in T : \A y \in T : x <= y
    BY <1>3, <2>1, FirstNumber
  <2>3. x \in 1 .. Len(terms) /\ ~IsIndex(terms[x])
    BY <2>2
  <2>4. \A k \in 1 .. Len(terms) : k < x => IsIndex(terms[k])
    BY <1>0, <2>2, <2>3
  <2>5. S = 1 .. (x - 1)
    BY <1>0, <2>3, <2>4
  <2>6. indices = x - 1
    BY <1>0, <1>1, <2>3, <2>5
  <2>7. \A k \in 1 .. indices : IsIndex(terms[k])
    <3>1. \A k \in 1 .. x - 1 : k \in 1 .. Len(terms) /\ k < x
      BY <1>0, <2>3
    <3> QED
      BY <2>4, <2>6, <3>1
  <2> HIDE DEF S, T
  <2> QED
    BY <1>0, <2>3, <2>4, <2>6, <2>7
<1> QED
  BY <1>2, <1>3

\* The last of some numbers up to a bound.
LEMMA LastNumber ==
  ASSUME NEW n \in Nat, NEW S \in SUBSET (1 .. n), S # {}
  PROVE \E x \in S : \A y \in S : y <= x
<1> DEFINE Back == {m \in Nat : n - m \in S}
<1>1. Back \in SUBSET Nat
  OBVIOUS
<1>2. \A x \in S : n - x \in Back
  <2>1. \A x \in S : x \in 1 .. n /\ n - x \in Nat /\ n - (n - x) = x
    OBVIOUS
  <2> QED
    BY <2>1
<1>3. Back # {}
  BY <1>2
<1>4. PICK b \in Back : \A c \in Back : b <= c
  <2> HIDE DEF Back
  <2> QED
    BY <1>1, <1>3, FirstNumber
<1>5. b \in Nat /\ n - b \in S
  BY <1>4
<1>6. ASSUME NEW y \in S PROVE y <= n - b
  <2>1. b <= n - y
    BY <1>2, <1>4
  <2> QED
    BY <1>5, <2>1
<1> QED
  BY <1>5, <1>6

\* The scale of an accepted operand is one of the four.
LEMMA ScaleKept ==
  ASSUME NEW terms, NEW n \in Nat, \A k \in 1 .. n : ~BadIndex(terms[k])
  PROVE ScaleAfter(terms, n) \in {1, 2, 4, 8}
<1>1. PICK scaled, last : /\ scaled = {k \in 1 .. n : terms[k].scale # NoScale}
                          /\ last = (CHOOSE k \in scaled : \A j \in scaled : j <= k)
  OBVIOUS
<1>2. CASE scaled = {}
  BY <1>1, <1>2 DEF ScaleAfter
<1>3. CASE scaled # {}
  <2>1. scaled \in SUBSET (1 .. n)
    BY <1>1
  <2>2. \E x \in scaled : \A y \in scaled : y <= x
    BY <1>3, <2>1, LastNumber
  <2>3. last \in scaled
    BY <1>1, <2>2
  <2>4. last \in 1 .. n /\ terms[last].scale # NoScale
    BY <1>1, <2>3
  <2>5. terms[last].scale \in {1, 2, 4, 8}
    BY <2>4 DEF BadIndex
  <2>6. ScaleAfter(terms, n) = terms[last].scale
    BY <1>1, <1>3 DEF ScaleAfter
  <2> QED
    BY <2>5, <2>6
<1> QED
  BY <1>2, <1>3

\* A memory operand that is accepted has a base and an index register.
LEMMA ParsedMemory ==
  ASSUME NEW mem, mem[2] \in 0 .. 31, mem[3] \in Seq(Terms), parseMemoryOperand(mem).ok
  PROVE LET ops == parseMemoryOperand(mem).ops IN
          /\ Len(ops) = 4 /\ \E a, b, c, d : ops = <<a, b, c, d>>
          /\ HoldsMem(ops, 1) /\ ops[1][1] # "x" /\ Addressed(ops, 1)
<1>1. PICK terms, indices, r :
        /\ terms = mem[3] /\ r = parseMemoryOperand(mem)
        /\ indices = Cardinality({k \in 1 .. Len(terms) : \A j \in 1 .. k : IsIndex(terms[j])})
  OBVIOUS
<1>2. indices \in 0 .. Len(terms) /\ (indices # 0 => IsIndex(terms[indices]))
  BY <1>1, IndexPrefix
<1>3. PICK index : index = IF indices = 0 THEN GPR(4) ELSE GPR(terms[indices].reg)
  OBVIOUS
<1>40. PICK scale, rest : /\ scale = ScaleAfter(terms, indices)
                          /\ rest = SubSeq(terms, indices + 1, Len(terms))
  OBVIOUS
<1>41. PICK v : v = IF rest = <<>> THEN 0 ELSE RestOfExpression(rest)
  OBVIOUS
<1>42. r.ops = <<GPR(mem[2]), index, Imm(scale), Imm(v)>>
         /\ \A k \in 1 .. indices : ~BadIndex(terms[k])
  BY <1>1, <1>3, <1>40, <1>41 DEF parseMemoryOperand, ParseFailure
<1>43. scale \in {1, 2, 4, 8}
  <2>1. indices \in Nat
    BY <1>2
  <2> QED
    BY <1>40, <1>42, <2>1, ScaleKept
<1>4. \E c, d : r.ops = <<GPR(mem[2]), index, c, d>>
  BY <1>42
<1>5. index[1] = "r" /\ index[2] \in 0 .. 31
  <2>1. CASE indices = 0
    BY <1>3, <2>1 DEF GPR
  <2>2. CASE indices # 0
    <3>1. terms[indices] \in Terms
      <4>1. terms \in Seq(Terms) /\ indices \in 1 .. Len(terms)
        BY <1>1, <1>2, <2>2
      <4> QED
        BY <4>1
    <3>2. terms[indices].reg \in 0 .. 31
      BY <1>2, <2>2, <3>1, TermRegister
    <3> QED
      BY <1>3, <2>2, <3>2 DEF GPR
  <2> QED
    BY <2>1, <2>2
<1>6. PICK c, d : r.ops = <<GPR(mem[2]), index, c, d>>
  BY <1>4
<1>7. r.ops[1] = GPR(mem[2]) /\ r.ops[2] = index /\ Len(r.ops) = 4
  BY <1>6
<1>8. HoldsReg(r.ops, 1) /\ HoldsReg(r.ops, 1 + 1) /\ r.ops[1][1] # "x"
  BY <1>5, <1>7 DEF GPR, HoldsReg
<1>9. Addressed(r.ops, 1)
  <2>1. r.ops[3] = Imm(scale) /\ r.ops[4] = Imm(v) /\ index = GPR(index[2])
    BY <1>3, <1>42 DEF GPR
  <2>2. r.ops[3][2] = scale /\ r.ops[4][2] = v /\ r.ops[1] = GPR(r.ops[1][2])
    BY <1>7, <2>1 DEF Imm, GPR
  <2>3. 1 + 1 = 2 /\ 1 + 2 = 3 /\ 1 + 3 = 4
    OBVIOUS
  <2> QED
    BY <1>7, <1>43, <2>1, <2>2, <2>3 DEF Addressed
<1> QED
  BY <1>1, <1>6, <1>7, <1>8, <1>9 DEF HoldsMem

\* The kinds of operands, and their number.
LEMMA KindsOfClass ==
  ASSUME NEW c \in DOMAIN OperandKinds
  PROVE /\ Len(OperandKinds[c]) \in 0 .. 4
        /\ \A k \in 1 .. Len(OperandKinds[c]) : OperandKinds[c][k] \in {"r", "v", "m", "i"}
        /\ c \in Tied => Len(OperandKinds[c]) > 0 /\ OperandKinds[c][1] \in {"r", "v"}
<1> DEFINE Good(kinds) == /\ Len(kinds) \in 0 .. 4
                         /\ \A k \in 1 .. Len(kinds) : kinds[k] \in {"r", "v", "m", "i"}
<1>1. \A b \in
        {"CopyRR", "ALURR", "CarryALURR", "UnaryRR", "CompareRR", "DSPUnary", "SysXQuery",
         "SysXPair"} :
       Good(OperandKinds[b])
  <2>1. Good(<< "r", "r" >>)
    OBVIOUS
  <2>2. \A b \in 
         {"CopyRR", "ALURR", "CarryALURR", "UnaryRR", "CompareRR", "DSPUnary", "SysXQuery",
          "SysXPair"} : OperandKinds[b] = << "r", "r" >>
    BY SMTT(60) DEF OperandKinds
  <2> HIDE DEF Good
  <2> QED
    BY <2>1, <2>2
<1>2. \A b \in
        {"CopyVV", "FPUnary", "FPCompare", "VUnary", "AVXUnary", "CryptoUnary", "FPXUnary"} :
       Good(OperandKinds[b])
  <2>1. Good(<< "v", "v" >>)
    OBVIOUS
  <2>2. \A b \in 
         {"CopyVV", "FPUnary", "FPCompare", "VUnary", "AVXUnary", "CryptoUnary", "FPXUnary"} : OperandKinds[b] = << "v", "v" >>
    BY SMTT(60) DEF OperandKinds
  <2> HIDE DEF Good
  <2> QED
    BY <2>1, <2>2
<1>3. \A b \in
        {"UnaryInPlace", "IndirectCall", "IndirectBranch", "TxnBeginAbs", "PushReg", "PopReg",
         "TxnAbortReg", "ReadReg", "TxnReadReg", "SysXReg", "SysXReadReg"} :
       Good(OperandKinds[b])
  <2>1. Good(<< "r" >>)
    OBVIOUS
  <2>2. \A b \in 
         {"UnaryInPlace", "IndirectCall", "IndirectBranch", "TxnBeginAbs", "PushReg", "PopReg",
          "TxnAbortReg", "ReadReg", "TxnReadReg", "SysXReg", "SysXReadReg"} : OperandKinds[b] = << "r" >>
    BY SMTT(60) DEF OperandKinds
  <2> HIDE DEF Good
  <2> QED
    BY <2>1, <2>2
<1>4. \A b \in
        {"RI64", "ALURI", "CompareRI", "RegCondBranch", "ReadControl", "SysXReadImm"} :
       Good(OperandKinds[b])
  <2>1. Good(<< "r", "i" >>)
    OBVIOUS
  <2>2. \A b \in 
         {"RI64", "ALURI", "CompareRI", "RegCondBranch", "ReadControl", "SysXReadImm"} : OperandKinds[b] = << "r", "i" >>
    BY SMTT(60) DEF OperandKinds
  <2> HIDE DEF Good
  <2> QED
    BY <2>1, <2>2
<1>5. \A b \in
        {"TernaryRI", "TernaryByte", "DSPRegImm"} :
       Good(OperandKinds[b])
  <2>1. Good(<< "r", "r", "i" >>)
    OBVIOUS
  <2>2. \A b \in 
         {"TernaryRI", "TernaryByte", "DSPRegImm"} : OperandKinds[b] = << "r", "r", "i" >>
    BY SMTT(60) DEF OperandKinds
  <2> HIDE DEF Good
  <2> QED
    BY <2>1, <2>2
<1>6. \A b \in
        {"TernaryRR", "StringCopy", "StringFill", "DSPTernary", "SysXTernary"} :
       Good(OperandKinds[b])
  <2>1. Good(<< "r", "r", "r" >>)
    OBVIOUS
  <2>2. \A b \in 
         {"TernaryRR", "StringCopy", "StringFill", "DSPTernary", "SysXTernary"} : OperandKinds[b] = << "r", "r", "r" >>
    BY SMTT(60) DEF OperandKinds
  <2> HIDE DEF Good
  <2> QED
    BY <2>1, <2>2
<1>7. \A b \in
        {"PairLoad", "AtomicCAS"} :
       Good(OperandKinds[b])
  <2>1. Good(<< "r", "r", "m" >>)
    OBVIOUS
  <2>2. \A b \in 
         {"PairLoad", "AtomicCAS"} : OperandKinds[b] = << "r", "r", "m" >>
    BY SMTT(60) DEF OperandKinds
  <2> HIDE DEF Good
  <2> QED
    BY <2>1, <2>2
<1>8. \A b \in
        {"PairStore"} :
       Good(OperandKinds[b])
  <2>1. Good(<< "m", "r", "r" >>)
    OBVIOUS
  <2>2. \A b \in 
         {"PairStore"} : OperandKinds[b] = << "m", "r", "r" >>
    BY SMTT(60) DEF OperandKinds
  <2> HIDE DEF Good
  <2> QED
    BY <2>1, <2>2
<1>9. \A b \in
        {"LoadQ", "AddressCalc", "AtomicMem", "AtomicExchange", "AtomicLoad"} :
       Good(OperandKinds[b])
  <2>1. Good(<< "r", "m" >>)
    OBVIOUS
  <2>2. \A b \in 
         {"LoadQ", "AddressCalc", "AtomicMem", "AtomicExchange", "AtomicLoad"} : OperandKinds[b] = << "r", "m" >>
    BY SMTT(60) DEF OperandKinds
  <2> HIDE DEF Good
  <2> QED
    BY <2>1, <2>2
<1>10. \A b \in
        {"StoreQ", "SysXMaskedMemory", "SysXStoreMemory"} :
       Good(OperandKinds[b])
  <2>1. Good(<< "m", "r" >>)
    OBVIOUS
  <2>2. \A b \in 
         {"StoreQ", "SysXMaskedMemory", "SysXStoreMemory"} : OperandKinds[b] = << "m", "r" >>
    BY SMTT(60) DEF OperandKinds
  <2> HIDE DEF Good
  <2> QED
    BY <2>1, <2>2
<1>11. \A b \in
        {"FPBinary", "VBinary", "AVXBinary", "CryptoBinary", "FPXBinary"} :
       Good(OperandKinds[b])
  <2>1. Good(<< "v", "v", "v" >>)
    OBVIOUS
  <2>2. \A b \in 
         {"FPBinary", "VBinary", "AVXBinary", "CryptoBinary", "FPXBinary"} : OperandKinds[b] = << "v", "v", "v" >>
    BY SMTT(60) DEF OperandKinds
  <2> HIDE DEF Good
  <2> QED
    BY <2>1, <2>2
<1>12. \A b \in
        {"VShiftImm", "AVXRegImm"} :
       Good(OperandKinds[b])
  <2>1. Good(<< "v", "v", "i" >>)
    OBVIOUS
  <2>2. \A b \in 
         {"VShiftImm", "AVXRegImm"} : OperandKinds[b] = << "v", "v", "i" >>
    BY SMTT(60) DEF OperandKinds
  <2> HIDE DEF Good
  <2> QED
    BY <2>1, <2>2
<1>13. \A b \in
        {"VectorLoad", "AtomicExchange128", "FPXLoad"} :
       Good(OperandKinds[b])
  <2>1. Good(<< "v", "m" >>)
    OBVIOUS
  <2>2. \A b \in 
         {"VectorLoad", "AtomicExchange128", "FPXLoad"} : OperandKinds[b] = << "v", "m" >>
    BY SMTT(60) DEF OperandKinds
  <2> HIDE DEF Good
  <2> QED
    BY <2>1, <2>2
<1>14. \A b \in
        {"VectorStore", "FPXStore"} :
       Good(OperandKinds[b])
  <2>1. Good(<< "m", "v" >>)
    OBVIOUS
  <2>2. \A b \in 
         {"VectorStore", "FPXStore"} : OperandKinds[b] = << "m", "v" >>
    BY SMTT(60) DEF OperandKinds
  <2> HIDE DEF Good
  <2> QED
    BY <2>1, <2>2
<1>15. \A b \in
        {"IntToFP"} :
       Good(OperandKinds[b])
  <2>1. Good(<< "v", "r" >>)
    OBVIOUS
  <2>2. \A b \in 
         {"IntToFP"} : OperandKinds[b] = << "v", "r" >>
    BY SMTT(60) DEF OperandKinds
  <2> HIDE DEF Good
  <2> QED
    BY <2>1, <2>2
<1>16. \A b \in
        {"FPToInt", "DSPSumDot"} :
       Good(OperandKinds[b])
  <2>1. Good(<< "r", "v" >>)
    OBVIOUS
  <2>2. \A b \in 
         {"FPToInt", "DSPSumDot"} : OperandKinds[b] = << "r", "v" >>
    BY SMTT(60) DEF OperandKinds
  <2> HIDE DEF Good
  <2> QED
    BY <2>1, <2>2
<1>17. \A b \in
        {"UncondBranch", "CondBranch", "Call", "TxnBeginRel", "TrapImm", "TxnAbortImm",
         "FrameImm", "SleepImm", "SysXImm"} :
       Good(OperandKinds[b])
  <2>1. Good(<< "i" >>)
    OBVIOUS
  <2>2. \A b \in 
         {"UncondBranch", "CondBranch", "Call", "TxnBeginRel", "TrapImm", "TxnAbortImm",
          "FrameImm", "SleepImm", "SysXImm"} : OperandKinds[b] = << "i" >>
    BY SMTT(60) DEF OperandKinds
  <2> HIDE DEF Good
  <2> QED
    BY <2>1, <2>2
<1>18. \A b \in
        {"WriteControl", "SysXWriteImm"} :
       Good(OperandKinds[b])
  <2>1. Good(<< "i", "r" >>)
    OBVIOUS
  <2>2. \A b \in 
         {"WriteControl", "SysXWriteImm"} : OperandKinds[b] = << "i", "r" >>
    BY SMTT(60) DEF OperandKinds
  <2> HIDE DEF Good
  <2> QED
    BY <2>1, <2>2
<1>19. \A b \in
        {"SystemNoOperand", "NoOperand", "TxnNoOperand", "Return", "AVXNoOperand",
         "SysXNoOperand", "WindowTransition"} :
       Good(OperandKinds[b])
  <2>1. Good(<<  >>)
    OBVIOUS
  <2>2. \A b \in 
         {"SystemNoOperand", "NoOperand", "TxnNoOperand", "Return", "AVXNoOperand",
          "SysXNoOperand", "WindowTransition"} : OperandKinds[b] = <<  >>
    BY SMTT(60) DEF OperandKinds
  <2> HIDE DEF Good
  <2> QED
    BY <2>1, <2>2
<1>20. \A b \in
        {"MemoryOnly", "SysXMemory"} :
       Good(OperandKinds[b])
  <2>1. Good(<< "m" >>)
    OBVIOUS
  <2>2. \A b \in 
         {"MemoryOnly", "SysXMemory"} : OperandKinds[b] = << "m" >>
    BY SMTT(60) DEF OperandKinds
  <2> HIDE DEF Good
  <2> QED
    BY <2>1, <2>2
<1>21. \A b \in
        {"AVXBinaryImm"} :
       Good(OperandKinds[b])
  <2>1. Good(<< "v", "v", "v", "i" >>)
    OBVIOUS
  <2>2. \A b \in 
         {"AVXBinaryImm"} : OperandKinds[b] = << "v", "v", "v", "i" >>
    BY SMTT(60) DEF OperandKinds
  <2> HIDE DEF Good
  <2> QED
    BY <2>1, <2>2
<1>22. \A b \in
        {"AVXGather"} :
       Good(OperandKinds[b])
  <2>1. Good(<< "v", "m", "i" >>)
    OBVIOUS
  <2>2. \A b \in 
         {"AVXGather"} : OperandKinds[b] = << "v", "m", "i" >>
    BY SMTT(60) DEF OperandKinds
  <2> HIDE DEF Good
  <2> QED
    BY <2>1, <2>2
<1>23. \A b \in
        {"AVXScatter"} :
       Good(OperandKinds[b])
  <2>1. Good(<< "m", "v", "i" >>)
    OBVIOUS
  <2>2. \A b \in 
         {"AVXScatter"} : OperandKinds[b] = << "m", "v", "i" >>
    BY SMTT(60) DEF OperandKinds
  <2> HIDE DEF Good
  <2> QED
    BY <2>1, <2>2
<1>24. \A b \in
        {"DSPQuaternary", "DSPPairOut"} :
       Good(OperandKinds[b])
  <2>1. Good(<< "r", "r", "r", "r" >>)
    OBVIOUS
  <2>2. \A b \in 
         {"DSPQuaternary", "DSPPairOut"} : OperandKinds[b] = << "r", "r", "r", "r" >>
    BY SMTT(60) DEF OperandKinds
  <2> HIDE DEF Good
  <2> QED
    BY <2>1, <2>2
<1>25. \A b \in
        {"DSPDot"} :
       Good(OperandKinds[b])
  <2>1. Good(<< "r", "v", "v" >>)
    OBVIOUS
  <2>2. \A b \in 
         {"DSPDot"} : OperandKinds[b] = << "r", "v", "v" >>
    BY SMTT(60) DEF OperandKinds
  <2> HIDE DEF Good
  <2> QED
    BY <2>1, <2>2
<1>26. \A b \in
        {"FPXFused"} :
       Good(OperandKinds[b])
  <2>1. Good(<< "v", "v", "v", "v" >>)
    OBVIOUS
  <2>2. \A b \in 
         {"FPXFused"} : OperandKinds[b] = << "v", "v", "v", "v" >>
    BY SMTT(60) DEF OperandKinds
  <2> HIDE DEF Good
  <2> QED
    BY <2>1, <2>2
<1>27. c \in
        {"CopyRR", "CopyVV", "ALURR", "CarryALURR", "UnaryInPlace", "UnaryRR", "CompareRR",
         "RI64", "ALURI", "CompareRI", "TernaryRI", "TernaryByte", "TernaryRR", "StringCopy",
         "StringFill", "PairLoad", "PairStore", "LoadQ", "StoreQ", "AddressCalc", "FPBinary",
         "FPUnary", "FPCompare", "VBinary", "VUnary", "VShiftImm", "VectorLoad", "VectorStore",
         "IntToFP", "FPToInt", "UncondBranch", "CondBranch", "Call", "TxnBeginRel",
         "RegCondBranch", "IndirectCall", "IndirectBranch", "TxnBeginAbs", "TrapImm",
         "TxnAbortImm", "PushReg", "PopReg", "TxnAbortReg", "FrameImm", "SleepImm", "ReadReg",
         "TxnReadReg", "ReadControl", "WriteControl", "SystemNoOperand", "NoOperand",
         "TxnNoOperand", "Return", "AtomicMem", "AtomicCAS", "AtomicExchange", "AtomicLoad",
         "AtomicExchange128", "MemoryOnly", "AVXBinary", "AVXUnary", "AVXRegImm",
         "AVXBinaryImm", "AVXGather", "AVXScatter", "AVXNoOperand", "CryptoBinary",
         "CryptoUnary", "DSPTernary", "DSPQuaternary", "DSPPairOut", "DSPUnary", "DSPRegImm",
         "DSPDot", "DSPSumDot", "SysXQuery", "SysXReadImm", "SysXWriteImm", "SysXMaskedMemory",
         "SysXNoOperand", "WindowTransition", "SysXPair", "SysXTernary", "SysXReg",
         "SysXReadReg", "SysXMemory", "SysXStoreMemory", "SysXImm", "FPXFused", "FPXBinary",
         "FPXUnary", "FPXLoad", "FPXStore"}
  BY SMTT(60) DEF OperandKinds
<1>28. Good(OperandKinds[c])
  <2> HIDE DEF Good
  <2> QED
    BY <1>1, <1>2, <1>3, <1>4, <1>5, <1>6, <1>7, <1>8, <1>9, <1>10, <1>11, <1>12, <1>13, <1>14, <1>15, <1>16, <1>17, <1>18, <1>19, <1>20, <1>21, <1>22, <1>23, <1>24, <1>25, <1>26, <1>27
<1>29. c \in Tied => OperandKinds[c] # <<>> /\ OperandKinds[c][1] \in {"r", "v"}
  BY SMTT(60) DEF OperandKinds, Tied
<1> QED
  BY <1>28, <1>29

-----------------------------------------------------------------------------
\* What one operand of the text becomes: itself, or the four of a memory operand.
Piece(kind, op, ops) ==
  /\ kind = "m" => /\ \E a, b, c, d : ops = <<a, b, c, d>>
                   /\ HoldsMem(ops, 1)
  /\ kind # "m" => ops = <<op>>
  /\ kind \in {"r", "v"} => HoldsReg(ops, 1)
  /\ kind = "i" => HoldsValue(ops, 1)
  /\ kind # "i" => op[1] # "x"
  /\ Spelled(kind, ops, 1)

\* Each operand the parser accepts becomes what its kind says.
LEMMA OperandPiece ==
  ASSUME NEW kind \in {"r", "v", "m", "i"}, NEW op, IsOperand(kind, op), parseOperand(op).ok
  PROVE Piece(kind, op, parseOperand(op).ops)
<1>1. CASE kind = "m"
  <2>1. op[1] = "mem" /\ op[2] \in 0 .. 31 /\ op[3] \in Seq(Terms)
    BY <1>1 DEF IsOperand
  <2>2. parseOperand(op) = parseMemoryOperand(op)
    BY <2>1 DEF parseOperand, IsMemory
  <2>3. PICK ops : ops = parseMemoryOperand(op).ops
    OBVIOUS
  <2>4. (\E a, b, c, d : ops = <<a, b, c, d>>) /\ HoldsMem(ops, 1) /\ Addressed(ops, 1)
    BY <2>1, <2>2, <2>3, ParsedMemory
  <2> QED
    BY <1>1, <2>1, <2>2, <2>3, <2>4 DEF Piece, Spelled
<1>2. CASE kind \in {"r", "v"}
  <2>1. (op[1] = "r" \/ op[1] = "v") /\ op[2] \in 0 .. 31
    <3>1. CASE kind = "r"
      BY <3>1 DEF IsOperand, GPR
    <3>2. CASE kind = "v"
      BY <3>2 DEF IsOperand, Vec
    <3> QED
      BY <1>2, <3>1, <3>2
  <2>2. parseOperand(op).ops = <<op>>
    BY <2>1 DEF parseOperand, IsMemory
  <2>3. HoldsReg(<<op>>, 1)
    BY <2>1 DEF HoldsReg
  <2>4. Spelled(kind, <<op>>, 1)
    <3>1. CASE kind = "r"
      <4>1. op = GPR(op[2])
        BY <3>1 DEF IsOperand, GPR
      <4> QED
        BY <3>1, <4>1 DEF Spelled
    <3>2. CASE kind = "v"
      <4>1. op = Vec(op[2])
        BY <3>2 DEF IsOperand, Vec
      <4> QED
        BY <3>2, <4>1 DEF Spelled
    <3> QED
      BY <1>2, <3>1, <3>2
  <2> QED
    BY <1>2, <2>1, <2>2, <2>3, <2>4 DEF Piece
<1>3. CASE kind = "i"
  <2>1. op[1] = "x" \/ (op[1] = "i" /\ op[2] \in Word32 /\ op[3] \in Word32)
    BY <1>3 DEF IsOperand, Wide
  <2>2. parseOperand(op).ops = <<op>>
    BY <2>1 DEF parseOperand, IsMemory
  <2>3. HoldsValue(<<op>>, 1)
    BY <2>1 DEF HoldsValue
  <2>4. Spelled(kind, <<op>>, 1)
    BY <1>3 DEF Spelled, IsOperand
  <2> QED
    BY <1>3, <2>1, <2>2, <2>3, <2>4 DEF Piece
<1> QED
  BY <1>1, <1>2, <1>3

\* A piece as a sequence.
LEMMA PieceString ==
  ASSUME NEW kind, NEW op, NEW ops, Piece(kind, op, ops), NEW V,
         \A j \in 1 .. 4 : ops[j] \in V
  PROVE ops \in Seq(V) /\ Len(ops) = IF kind = "m" THEN 4 ELSE 1
<1>1. CASE kind = "m"
  <2>1. PICK a, b, c, d : ops = <<a, b, c, d>>
    BY <1>1 DEF Piece
  <2>2. a \in V /\ b \in V /\ c \in V /\ d \in V
    <3>1. ops[1] = a /\ ops[2] = b /\ ops[3] = c /\ ops[4] = d
      BY <2>1
    <3> QED
      BY <3>1
  <2> QED
    BY <1>1, <2>1, <2>2
<1>2. CASE kind # "m"
  <2>1. ops = <<op>> /\ ops[1] \in V
    BY <1>2 DEF Piece
  <2>2. op \in V
    BY <2>1
  <2> QED
    BY <1>2, <2>1, <2>2
<1> QED
  BY <1>1, <1>2

\* The operand of kind "kind" at place q + 1 of ops, once its piece is there.
LEMMA PiecePlaced ==
  ASSUME NEW kind \in {"r", "v", "m", "i"}, NEW op, NEW piece, Piece(kind, op, piece), NEW ops,
         NEW q \in Nat, \A j \in 1 .. (IF kind = "m" THEN 4 ELSE 1) : ops[q + j] = piece[j]
  PROVE /\ HoldsKind(kind, ops, q + 1)
        /\ kind = "i" => ops[q + 1] = op
        /\ kind # "i" => op[1] # "x"
<1>1. ops[q + 1] = piece[1]
  OBVIOUS
<1>2. kind = "m" => ops[q + 2] = piece[2]
  OBVIOUS
<1>3. kind = "m" => HoldsReg(piece, 1) /\ HoldsReg(piece, 1 + 1)
  BY DEF Piece, HoldsMem
<1>4. kind = "m" => HoldsMem(ops, q + 1)
  <2> SUFFICES ASSUME kind = "m" PROVE HoldsMem(ops, q + 1)
    OBVIOUS
  <2>1. (q + 1) + 1 = q + 2 /\ 1 + 1 = 2
    OBVIOUS
  <2> QED
    BY <1>1, <1>2, <1>3, <2>1 DEF HoldsMem, HoldsReg
<1>5. kind \in {"r", "v"} => HoldsReg(ops, q + 1)
  BY <1>1 DEF Piece, HoldsReg
<1>6. kind = "i" => HoldsValue(ops, q + 1)
  BY <1>1 DEF Piece, HoldsValue
<1>7. kind = "i" => ops[q + 1] = op
  BY <1>1 DEF Piece
<1>8. kind # "i" => op[1] # "x"
  BY DEF Piece
<1>9. Spelled(kind, ops, q + 1)
  <2>1. CASE kind = "m"
    <3>1. PICK r : r = q + 1
      OBVIOUS
    <3>2. r + 1 = q + 2 /\ r + 2 = q + 3 /\ r + 3 = q + 4
      BY <3>1
    <3>3. ops[r] = piece[1] /\ ops[r + 1] = piece[2] /\ ops[r + 2] = piece[3] /\ ops[r + 3] = piece[4]
      BY <1>1, <1>2, <2>1, <3>1, <3>2
    <3>4. Addressed(piece, 1) /\ 1 + 1 = 2 /\ 1 + 2 = 3 /\ 1 + 3 = 4
      BY <2>1 DEF Piece, Spelled
    <3>5. Addressed(ops, r)
      BY <3>3, <3>4 DEF Addressed
    <3> QED
      BY <2>1, <3>1, <3>5 DEF Spelled
  <2>2. CASE kind # "m"
    BY <1>1, <2>2 DEF Piece, Spelled
  <2> QED
    BY <2>1, <2>2
<1> QED
  BY <1>4, <1>5, <1>6, <1>7, <1>8, <1>9 DEF HoldsKind

\* Where the operands of a statement go: those of the k-th stand after the ones before it, and a
\* tied result once more in front.
MatchedAs(s, operands, ops, kinds, n, tied) ==
  /\ n \in 0 .. 4 /\ DOMAIN s.ops = 1 .. n
  /\ \A k \in 1 .. n : kinds[k] \in {"r", "v", "m", "i"}
  /\ Len(ops) = tied + Place(kinds, n + 1)
  /\ tied = 1 => HoldsReg(ops, 1) /\ ops[1] = ops[2]
  /\ \A k \in 1 .. n :
       /\ Place(kinds, k) \in Nat /\ Piece(kinds[k], s.ops[k], operands[k])
       /\ \A j \in 1 .. Size(kinds, k) : ops[(tied + Place(kinds, k)) + j] = operands[k][j]

\* What the matcher hands over, operand by operand.
LEMMA MatchedPlaces ==
  ASSUME NEW s, s.kind = "instruction", IsStatement(s),
         NEW operands, operands = [k \in 1 .. Len(s.ops) |-> parseOperand(s.ops[k]).ops],
         \A k \in 1 .. Len(s.ops) : parseOperand(s.ops[k]).ok,
         NEW kinds, kinds = OperandKinds[ClassOf(s.name)], NEW n, n = Len(kinds),
         NEW tied, tied = (IF ClassOf(s.name) \in Tied THEN 1 ELSE 0),
         NEW ops, ops = Matched(s.name, operands)
  PROVE MatchedAs(s, operands, ops, kinds, n, tied)
<1>1. PICK class, source : class = ClassOf(s.name) /\ source = s.ops
  OBVIOUS
<1>2. /\ s.name \in DOMAIN Records /\ DOMAIN source = 1 .. n /\ Len(source) = n
      /\ \A k \in 1 .. n : IsOperand(kinds[k], source[k])
  BY <1>1 DEF IsStatement
<1>3. class \in DOMAIN OperandKinds
  BY <1>1, <1>2, RecordRange, SameClasses
<1>4. /\ n \in 0 .. 4 /\ \A k \in 1 .. n : kinds[k] \in {"r", "v", "m", "i"}
      /\ class \in Tied => n > 0 /\ kinds[1] \in {"r", "v"}
  BY <1>1, <1>3, KindsOfClass
<1>5. operands = [k \in 1 .. n |-> parseOperand(source[k]).ops]
  BY <1>1, <1>2
<1>6. \A k \in 1 .. n : Piece(kinds[k], source[k], operands[k])
  BY <1>1, <1>2, <1>4, <1>5, OperandPiece
<1>7. Len(operands) = n /\ (n = 0 => operands = <<>>)
  BY <1>4, <1>5
<1> DEFINE Of(k) == {operands[k][j] : j \in 1 .. 4}
           V == UNION {Of(k) : k \in 1 .. n}
<1>8. \A k \in 1 .. n : operands[k] \in Seq(V) /\ Len(operands[k]) = Size(kinds, k)
  <2>1. ASSUME NEW k \in 1 .. n
        PROVE operands[k] \in Seq(V) /\ Len(operands[k]) = Size(kinds, k)
    <3>1. \A j \in 1 .. 4 : operands[k][j] \in V
      <4>1. \A j \in 1 .. 4 : operands[k][j] \in Of(k)
        OBVIOUS
      <4>2. Of(k) \subseteq V
        <5> HIDE DEF Of
        <5>1. \A h \in 1 .. n : \A x \in Of(h) : x \in UNION {Of(g) : g \in 1 .. n}
          OBVIOUS
        <5> QED
          BY <2>1, <5>1
      <4> QED
        BY <4>1, <4>2
    <3> HIDE DEF V
    <3> QED
      BY <1>6, <2>1, <3>1, PieceString DEF Size
  <2> QED
    BY <2>1
<1> HIDE DEF V, Of
<1>9. PICK flat : flat = FlattenSeq(operands)
  OBVIOUS
<1>10. /\ flat \in Seq(V) /\ Len(flat) = Place(kinds, n + 1)
       /\ \A k \in 1 .. n : \A j \in 1 .. Size(kinds, k) :
            flat[Place(kinds, k) + j] = operands[k][j]
  <2>1. Flattened(flat, operands, kinds, n, V)
    BY <1>4, <1>7, <1>8, <1>9, FlatPlaces
  <2> QED
    BY <2>1 DEF Flattened
<1>11. \A k \in 1 .. n + 1 : Place(kinds, k) \in Nat
  BY DEF Place, Size
<1>12. tied = (IF class \in Tied THEN 1 ELSE 0)
  BY <1>1
<1>20. tied \in {0, 1}
  BY <1>12
<1>13. /\ Len(ops) = tied + Place(kinds, n + 1)
       /\ \A p \in 1 .. Place(kinds, n + 1) : ops[tied + p] = flat[p]
       /\ tied = 1 => HoldsReg(ops, 1) /\ ops[1] = ops[2]
  <2>1. CASE class \in Tied
    <3>1. ops = Join(operands[1], flat) /\ tied = 1
      BY <1>1, <1>9, <1>12, <2>1 DEF Matched, Join
    <3>2. 1 \in 1 .. n /\ Size(kinds, 1) = 1
      BY <1>4, <2>1 DEF Size
    <3>3. PICK first : first = operands[1]
      OBVIOUS
    <3>4. first \in Seq(V) /\ Len(first) = 1 /\ HoldsReg(first, 1)
      BY <1>4, <1>6, <1>8, <2>1, <3>2, <3>3 DEF Piece
    <3>5. PICK m : m = Place(kinds, n + 1)
      OBVIOUS
    <3>6. Joins(ops, first, flat, 1, m, V)
      <4>1. ops = Join(first, flat)
        BY <3>1, <3>3
      <4>2. flat \in Seq(V) /\ Len(flat) = m
        BY <1>10, <3>5
      <4>3. first \in Seq(V) /\ Len(first) = 1
        BY <3>4
      <4> QED
        BY <4>1, <4>2, <4>3, Joined, ZenonT(60)
    <3>7. /\ Len(ops) = 1 + m /\ \A j \in 1 .. 1 : ops[j] = first[j]
          /\ \A j \in 1 .. m : ops[1 + j] = flat[j]
      BY <3>6 DEF Joins
    <3>8. ops[1] = first[1]
      BY <3>7
    <3>9. HoldsReg(ops, 1)
      BY <3>4, <3>8 DEF HoldsReg
    <3>10. ops[2] = first[1]
      <4>1. m \in Nat /\ m >= 1
        BY <1>4, <1>11, <2>1, <3>2, <3>5 DEF Place, Size
      <4>2. ops[1 + 1] = flat[1]
        BY <3>7, <4>1
      <4>3. Place(kinds, 1) = 0
        BY DEF Place
      <4>4. flat[1] = operands[1][1]
        <5>2. 1 \in 1 .. n /\ 1 \in 1 .. Size(kinds, 1)
          BY <3>2
        <5>3. \A k \in 1 .. n : \A j \in 1 .. Size(kinds, k) :
                flat[Place(kinds, k) + j] = operands[k][j]
          BY <1>10
        <5>1. flat[Place(kinds, 1) + 1] = operands[1][1]
          BY <5>2, <5>3, Zenon
        <5> QED
          BY <4>3, <5>1
      <4> QED
        BY <3>3, <4>2, <4>4
    <3> QED
      BY <3>1, <3>5, <3>7, <3>8, <3>9, <3>10
  <2>2. CASE class \notin Tied
    <3>1. ops = <<>> \o flat /\ tied = 0
      BY <1>1, <1>9, <1>12, <2>2 DEF Matched
    <3>2. ops = flat
      BY <1>10, <3>1, ConcatEmptySeq
    <3>3. Len(ops) = 0 + Place(kinds, n + 1)
      BY <1>4, <1>10, <1>11, <3>2
    <3>4. \A p \in 1 .. Place(kinds, n + 1) : 0 + p = p
      BY <1>4, <1>11
    <3> QED
      BY <3>1, <3>2, <3>3, <3>4
  <2> QED
    BY <2>1, <2>2
<1>14. ASSUME NEW k \in 1 .. n
       PROVE \A j \in 1 .. Size(kinds, k) : ops[(tied + Place(kinds, k)) + j] = operands[k][j]
  <2>1. PICK q, at : q = Place(kinds, k) /\ at = tied + q
    OBVIOUS
  <2>2. q \in Nat /\ at \in Nat /\ tied \in Nat
    BY <1>4, <1>11, <1>20, <1>14, <2>1
  <2>3. ASSUME NEW j \in 1 .. Size(kinds, k) PROVE ops[at + j] = operands[k][j]
    <3>1. q + j \in 1 .. Place(kinds, n + 1)
      <4>1. k = 1 \/ k = 2 \/ k = 3 \/ k = 4
        BY <1>4, <1>14
      <4>2. n = 1 \/ n = 2 \/ n = 3 \/ n = 4
        BY <1>4, <1>14
      <4> QED
        BY <1>14, <2>1, <2>3, <4>1, <4>2 DEF Place, Size
    <3>2. tied + (q + j) = at + j
      BY <2>1, <2>2, <2>3 DEF Size
    <3>3. flat[q + j] = operands[k][j]
      BY <1>10, <1>14, <2>1, <2>3
    <3> QED
      BY <1>13, <3>1, <3>2, <3>3
  <2> QED
    BY <2>1, <2>3
<1>15. ASSUME NEW k \in 1 .. n
       PROVE Place(kinds, k) \in Nat /\ Piece(kinds[k], s.ops[k], operands[k])
  <2>1. k \in 1 .. n + 1
    BY <1>4
  <2> QED
    BY <1>1, <1>6, <1>11, <2>1
<1>16. DOMAIN s.ops = 1 .. n
  BY <1>1, <1>2
<1> QED
  BY <1>4, <1>13, <1>14, <1>15, <1>16 DEF MatchedAs

\* What the matcher hands to encodeInstruction for a statement.
LEMMA MatchedFilled ==
  ASSUME NEW s, s.kind = "instruction", IsStatement(s), NEW marker,
         NEW operands, operands = [k \in 1 .. Len(s.ops) |-> parseOperand(s.ops[k]).ops],
         \A k \in 1 .. Len(s.ops) : parseOperand(s.ops[k]).ok
  PROVE Filled([name |-> s.name, marker |-> marker, ops |-> Matched(s.name, operands)], s.ops)
<1>1. PICK kinds, n, class, source :
        /\ class = ClassOf(s.name) /\ kinds = OperandKinds[class] /\ n = Len(kinds)
        /\ source = s.ops
  OBVIOUS
<1>2. PICK tied, ops : /\ tied = (IF class \in Tied THEN 1 ELSE 0)
                       /\ ops = Matched(s.name, operands)
  OBVIOUS
<1>3. MatchedAs(s, operands, ops, kinds, n, tied)
  BY <1>1, <1>2, MatchedPlaces
<1>4. tied \in {0, 1}
  BY <1>2
<1>14. ASSUME NEW k \in 1 .. n
       PROVE /\ HoldsKind(kinds[k], ops, tied + 1 + Place(kinds, k))
             /\ kinds[k] = "i" => ops[tied + 1 + Place(kinds, k)] = source[k]
             /\ kinds[k] # "i" => source[k][1] # "x"
  <2>1. PICK kind, piece, op, q, at :
          /\ kind = kinds[k] /\ piece = operands[k] /\ op = source[k]
          /\ q = Place(kinds, k) /\ at = tied + q
    OBVIOUS
  <2>20. q \in Nat
    BY <1>3, <1>14, <2>1 DEF MatchedAs
  <2>2. q \in Nat /\ at \in Nat /\ at + 1 = tied + 1 + q
    BY <1>4, <2>1, <2>20
  <2>3. /\ kind \in {"r", "v", "m", "i"} /\ Piece(kind, op, piece)
        /\ \A j \in 1 .. (IF kind = "m" THEN 4 ELSE 1) : ops[at + j] = piece[j]
    BY <1>1, <1>3, <1>14, <2>1 DEF MatchedAs, Size
  <2>4. /\ HoldsKind(kind, ops, at + 1)
        /\ kind = "i" => ops[at + 1] = op
        /\ kind # "i" => op[1] # "x"
    BY <2>2, <2>3, PiecePlaced
  <2> QED
    BY <2>1, <2>2, <2>4
<1>16. Fills(ops, source, kinds, tied)
  BY <1>1, <1>3, <1>14 DEF Fills, MatchedAs
<1>17. PICK i : i = [name |-> s.name, marker |-> marker, ops |-> ops]
  OBVIOUS
<1>18. i.ops = ops /\ ClassOf(i.name) = class
  BY <1>1, <1>17
<1>19. Filled(i, source)
  BY <1>1, <1>2, <1>16, <1>18 DEF Filled
<1> QED
  BY <1>1, <1>2, <1>17, <1>19

-----------------------------------------------------------------------------
(* The invariant of the code section.                                      *)

\* The field an instruction ends with when it names a label, and the fixup for it.
FieldWidth(entry) == IF IsBranch(entry) \/ ~target.is64 THEN 4 ELSE 8
FieldAt(entry) == entry.end - FieldWidth(entry)
FixupFor(entry) == FieldFixup(FieldAt(entry), LabelOf(entry), IsBranch(entry), target.is64)

\* The relocation that is left of a fixup that is not resolved.
RelocationFor(entry) ==
  [at |-> FieldAt(entry), label |-> LabelOf(entry), addend |-> IF IsBranch(entry) THEN -4 ELSE 0,
   type |-> IF IsBranch(entry) THEN "R_SB_PCREL32"
            ELSE IF target.is64 THEN "R_SB_ABS64" ELSE "R_SB_ABS32"]

Zeros(entry) == \A b \in FieldAt(entry) + 1 .. entry.end : code[b] = 0
Patched(entry) ==
  LET value == ValueBytes(FixupValue(FixupFor(entry)), FieldWidth(entry)) IN
    \A b \in FieldAt(entry) + 1 .. entry.end : code[b] = value[b - FieldAt(entry)]

\* Before the field stands what the emitter writes for the instruction: the marker, the
\* opcode and the register.
Opened(entry) ==
  \E i : /\ i.name = entry.statement.name /\ i.marker \in 0 .. 10
         /\ FormOf(i.name) # "BranchRel32" => HoldsReg(i.ops, 1)
         /\ FieldAt(entry) = entry.at + Len(MarkerBytes(i) \o LeadBytes(i))
         /\ \A j \in 1 .. Len(MarkerBytes(i) \o LeadBytes(i)) :
              code[entry.at + j] = (MarkerBytes(i) \o LeadBytes(i))[j]

\* Until its fixup is applied a field is zero; then it has the value or a relocation.
Pending(entry) ==
  /\ \E a \in 1 .. Len(fixups) : fixups[a] = FixupFor(entry)
  /\ Zeros(entry)
Applied(entry) ==
  /\ phase \notin {"parsing", "error"}
  /\ \A a \in 1 .. Len(fixups) : fixups[a].offset # FieldAt(entry)
  /\ IF Resolved(FixupFor(entry)) THEN Patched(entry)
     ELSE Zeros(entry) /\ RelocationFor(entry) \in relocations

EntryOK(entry) ==
  /\ entry.at \in Nat /\ entry.end \in Nat /\ entry.at < entry.end /\ entry.end <= Len(code)
  /\ UsesLabel(entry) =>
       /\ entry.statement.name \in DOMAIN Records
       /\ ClassOf(entry.statement.name) \in BranchClasses \cup AddressClasses
       /\ entry.at < FieldAt(entry)
       /\ Opened(entry)
       /\ Pending(entry) \/ Applied(entry)

\* The instructions lie one after the other and fill the section.
Tiles ==
  /\ \E S : listing \in Seq(S)
  /\ \A k \in 1 .. Len(listing) : listing[k].at = IF k = 1 THEN 0 ELSE listing[k - 1].end
  /\ Len(code) = IF listing = <<>> THEN 0 ELSE listing[Len(listing)].end
  /\ \A j, k \in 1 .. Len(listing) : j < k => listing[j].end <= listing[k].at

Listed(entry) == \E k \in 1 .. Len(listing) : entry = listing[k]

\* Every fixup and every relocation is that of an instruction.
HasFixup(f) == \E entry : Listed(entry) /\ UsesLabel(entry) /\ f = FixupFor(entry)
HasRelocation(r) == \E entry : Listed(entry) /\ UsesLabel(entry) /\ r = RelocationFor(entry)

FixupsOK ==
  /\ \E S : fixups \in Seq(S)
  /\ \A f : (\E a \in 1 .. Len(fixups) : f = fixups[a]) => HasFixup(f)
  /\ \A a, b \in 1 .. Len(fixups) : a < b => fixups[a].offset < fixups[b].offset
  /\ \A r \in relocations : HasRelocation(r)
  /\ phase \in {"disassembling", "executing"} => fixups = <<>>

Typed ==
  /\ target.is64 \in BOOLEAN
  /\ phase \in {"parsing", "fixups", "disassembling", "executing", "error"}
  /\ line \in Nat \ {0}
  /\ code \in Seq(Byte)
  /\ pendingMarker \in 0 .. 10
  /\ \A l \in DOMAIN labels : labels[l] \in Nat
  /\ offset \in 0 .. Len(code)
  /\ phase \notin {"disassembling", "executing"} => offset = 0

EntriesOK == \A entry : Listed(entry) => EntryOK(entry)

CodeInv == Typed /\ Tiles /\ FixupsOK /\ EntriesOK

-----------------------------------------------------------------------------
\* The place of the field and its fixup.
LEMMA FieldPlace ==
  ASSUME NEW e, EntryOK(e), UsesLabel(e)
  PROVE /\ FieldWidth(e) \in {4, 8} /\ FieldAt(e) \in Nat /\ FieldAt(e) + FieldWidth(e) = e.end
        /\ e.at < FieldAt(e) /\ FieldAt(e) < e.end
        /\ FixupFor(e).offset = FieldAt(e) /\ FixupFor(e).label = LabelOf(e)
        /\ FixupFor(e).pcrel
        /\ FixupBytes(FixupFor(e).kind) = FieldWidth(e)
<1>1. FieldWidth(e) \in {4, 8}
  BY DEF FieldWidth
<1>2. e.end \in Nat /\ e.at \in Nat /\ e.at < FieldAt(e)
  BY DEF EntryOK
<1>3. FieldAt(e) = e.end - FieldWidth(e)
  BY DEF FieldAt
<1>4. FieldAt(e) \in Nat /\ FieldAt(e) + FieldWidth(e) = e.end /\ FieldAt(e) < e.end
  BY <1>1, <1>2, <1>3
<1>5. PICK at, label, branch, f : at = FieldAt(e) /\ label = LabelOf(e) /\ branch = IsBranch(e)
                                  /\ f = FixupFor(e)
  OBVIOUS
<1>6. f = FieldFixup(at, label, branch, target.is64)
  BY <1>5 DEF FixupFor
<1>7. f.offset = at /\ f.label = label /\ f.pcrel
  BY <1>6 DEF FieldFixup
<1>8. f.kind = IF branch THEN "pcrel32" ELSE IF target.is64 THEN "data8" ELSE "data4"
  BY <1>6 DEF FieldFixup
<1>9. FixupBytes(f.kind) = FieldWidth(e)
  BY <1>5, <1>8 DEF FixupBytes, FieldWidth
<1> QED
  BY <1>1, <1>2, <1>4, <1>5, <1>7, <1>9

\* Two instructions do not share a byte.
LEMMA Apart ==
  ASSUME Tiles, NEW d, Listed(d), NEW e, Listed(e), d # e
  PROVE d.end <= e.at \/ e.end <= d.at
<1>1. PICK j \in 1 .. Len(listing) : d = listing[j]
  BY DEF Listed
<1>2. PICK k \in 1 .. Len(listing) : e = listing[k]
  BY DEF Listed
<1>3. Len(listing) \in Nat
  BY DEF Tiles
<1>4. j < k \/ k < j
  BY <1>1, <1>2, <1>3
<1> QED
  BY <1>1, <1>2, <1>4 DEF Tiles

\* Two instructions have two fields.
LEMMA FieldsDiffer ==
  ASSUME Tiles, NEW d, Listed(d), EntryOK(d), UsesLabel(d),
         NEW e, Listed(e), EntryOK(e), UsesLabel(e), d # e
  PROVE FieldAt(d) # FieldAt(e)
<1>1. d.end <= e.at \/ e.end <= d.at
  BY Apart
<1>2. FieldAt(d) \in Nat /\ d.at < FieldAt(d) /\ FieldAt(d) < d.end
  BY FieldPlace
<1>3. FieldAt(e) \in Nat /\ e.at < FieldAt(e) /\ FieldAt(e) < e.end
  BY FieldPlace
<1>4. d.at \in Nat /\ d.end \in Nat /\ e.at \in Nat /\ e.end \in Nat
  BY DEF EntryOK
<1> QED
  BY <1>1, <1>2, <1>3, <1>4

\* The fixup and the relocation of an instruction depend on nothing that changes.
LEMMA FieldKept ==
  ASSUME NEW e, target' = target
  PROVE /\ FieldWidth(e)' = FieldWidth(e) /\ FieldAt(e)' = FieldAt(e)
        /\ FixupFor(e)' = FixupFor(e) /\ RelocationFor(e)' = RelocationFor(e)
BY DEF FieldWidth, FieldAt, FixupFor, RelocationFor

\* An instruction stays as it is when its bytes do and its fixup is still in order.
LEMMA EntryKept ==
  ASSUME NEW e, EntryOK(e), target' = target, Len(code) <= Len(code'), Len(code) \in Nat, Len(code') \in Nat,
         UsesLabel(e) => /\ \A b \in e.at + 1 .. FieldAt(e) : code'[b] = code[b]
                         /\ Pending(e)' \/ Applied(e)'
  PROVE EntryOK(e)'
<1>1. e.at \in Nat /\ e.end \in Nat /\ e.at < e.end /\ e.end <= Len(code')
  BY DEF EntryOK
<1>2. ASSUME UsesLabel(e)
      PROVE /\ e.statement.name \in DOMAIN Records
            /\ ClassOf(e.statement.name) \in BranchClasses \cup AddressClasses
            /\ e.at < FieldAt(e)'
            /\ Opened(e)'
            /\ Pending(e)' \/ Applied(e)'
  <2>1. FieldAt(e)' = FieldAt(e)
    BY FieldKept
  <2>2. Opened(e) /\ e.at \in Nat
    BY <1>2 DEF EntryOK
  <2>3. PICK i : /\ i.name = e.statement.name /\ i.marker \in 0 .. 10
                 /\ FormOf(i.name) # "BranchRel32" => HoldsReg(i.ops, 1)
                 /\ FieldAt(e) = e.at + Len(MarkerBytes(i) \o LeadBytes(i))
                 /\ \A j \in 1 .. Len(MarkerBytes(i) \o LeadBytes(i)) :
                      code[e.at + j] = (MarkerBytes(i) \o LeadBytes(i))[j]
    BY <2>2 DEF Opened
  <2>4. PICK start : start = MarkerBytes(i) \o LeadBytes(i)
    OBVIOUS
  <2>5. start \in Seq(Byte) /\ Len(start) \in Nat
    <3>1. i.name \in DOMAIN Records
      BY <1>2, <2>3 DEF EntryOK
    <3>2. LeadBytes(i) \in Seq(Byte)
      BY <2>3, <3>1, LeadString
    <3>3. MarkerBytes(i) \in Seq(Byte)
      BY <2>3, MarkerString
    <3> QED
      BY <2>4, <3>2, <3>3, Concat
  <2>6. ASSUME NEW j \in 1 .. Len(start) PROVE code'[e.at + j] = start[j]
    <3>1. e.at + j \in e.at + 1 .. FieldAt(e)
      BY <2>2, <2>3, <2>4, <2>5
    <3> QED
      BY <1>2, <2>3, <2>4, <3>1
  <2>7. Opened(e)'
    BY <2>1, <2>3, <2>4, <2>6 DEF Opened
  <2>8. e.at < FieldAt(e)'
    BY <1>2, <2>1 DEF EntryOK
  <2> QED
    BY <1>2, <2>7, <2>8 DEF EntryOK
<1> QED
  BY <1>1, <1>2 DEF EntryOK

-----------------------------------------------------------------------------
(* Steps that leave the bytes and the fixups alone.                        *)
LEMMA PendingKept ==
  ASSUME NEW e, Pending(e), target' = target,
         \A b \in FieldAt(e) + 1 .. e.end : code'[b] = code[b],
         \E a \in 1 .. Len(fixups') : fixups'[a] = FixupFor(e)
  PROVE Pending(e)'
<1>1. FixupFor(e)' = FixupFor(e) /\ FieldAt(e)' = FieldAt(e)
  BY FieldKept
<1>2. Zeros(e)'
  BY <1>1 DEF Pending, Zeros
<1>3. \E a \in 1 .. Len(fixups') : fixups'[a] = FixupFor(e)'
  BY <1>1 DEF Pending
<1> QED
  BY <1>2, <1>3 DEF Pending

\* Whether a fixup is resolved and its value depend on the labels alone.
LEMMA ResolvedKept ==
  ASSUME NEW f, UNCHANGED labels
  PROVE (Resolved(f)' <=> Resolved(f)) /\ FixupValue(f)' = FixupValue(f)
<1>1. Resolved(f)' <=> Resolved(f)
  BY DEF Resolved
<1>2. FixupValue(f)' = FixupValue(f)
  BY DEF FixupValue
<1> QED
  BY <1>1, <1>2

\* An applied field stays applied when its bytes and labels do.
LEMMA AppliedKept ==
  ASSUME NEW e, Applied(e), UNCHANGED <<target, labels>>, phase' \notin {"parsing", "error"},
         \A b \in FieldAt(e) + 1 .. e.end : code'[b] = code[b],
         \A a \in 1 .. Len(fixups') : fixups'[a].offset # FieldAt(e),
         relocations \subseteq relocations'
  PROVE Applied(e)'
<1>1. /\ FixupFor(e)' = FixupFor(e) /\ FieldAt(e)' = FieldAt(e) /\ FieldWidth(e)' = FieldWidth(e)
      /\ RelocationFor(e)' = RelocationFor(e)
  BY FieldKept
<1>2. PICK f, value : f = FixupFor(e) /\ value = ValueBytes(FixupValue(f), FieldWidth(e))
  OBVIOUS
<1>3. (Resolved(f)' <=> Resolved(f)) /\ FixupValue(f)' = FixupValue(f)
  BY ResolvedKept
<1>4. FixupFor(e)' = f /\ ValueBytes(FixupValue(FixupFor(e)), FieldWidth(e))' = value
  <2>1. FixupFor(e)' = f
    BY <1>1, <1>2
  <2>2. FixupValue(FixupFor(e))' = FixupValue(f)'
    BY <1>1, <1>2 DEF FixupValue
  <2> QED
    BY <1>1, <1>2, <1>3, <2>1, <2>2 DEF ValueBytes
<1>5. Resolved(FixupFor(e))' <=> Resolved(f)
  BY <1>1, <1>2 DEF Resolved
<1>6. \A a \in 1 .. Len(fixups') : fixups'[a].offset # FieldAt(e)'
  BY <1>1 DEF Applied
<1>7. Patched(e) => Patched(e)'
  <2> SUFFICES ASSUME Patched(e) PROVE Patched(e)'
    OBVIOUS
  <2>1. \A b \in FieldAt(e) + 1 .. e.end : code[b] = value[b - FieldAt(e)]
    BY <1>2 DEF Patched
  <2> QED
    BY <1>1, <1>4, <2>1 DEF Patched
<1>8. Zeros(e) => Zeros(e)'
  BY <1>1 DEF Zeros
<1>9. RelocationFor(e) \in relocations => (RelocationFor(e) \in relocations)'
  BY <1>1
<1> QED
  BY <1>2, <1>5, <1>6, <1>7, <1>8, <1>9 DEF Applied

\* The order of the fixups and the tiling are about the sequences alone.
LEMMA ListKept ==
  ASSUME UNCHANGED <<target, listing>>
  PROVE /\ \A e : Listed(e)' <=> Listed(e)
        /\ \A f : HasFixup(f) => HasFixup(f)'
        /\ \A r : HasRelocation(r) => HasRelocation(r)'
<1>1. \A e : Listed(e)' <=> Listed(e)
  BY DEF Listed
<1>2. ASSUME NEW f, HasFixup(f) PROVE HasFixup(f)'
  <2>1. PICK e : Listed(e) /\ UsesLabel(e) /\ f = FixupFor(e)
    BY <1>2 DEF HasFixup
  <2>2. FixupFor(e)' = FixupFor(e)
    BY FieldKept
  <2> QED
    BY <1>1, <2>1, <2>2 DEF HasFixup
<1>3. ASSUME NEW r, HasRelocation(r) PROVE HasRelocation(r)'
  <2>1. PICK e : Listed(e) /\ UsesLabel(e) /\ r = RelocationFor(e)
    BY <1>3 DEF HasRelocation
  <2>2. RelocationFor(e)' = RelocationFor(e)
    BY FieldKept
  <2> QED
    BY <1>1, <2>1, <2>2 DEF HasRelocation
<1> QED
  BY <1>1, <1>2, <1>3

\* How the phases follow one another while the code stays.
PhaseStep ==
  \/ phase = "parsing" /\ phase' \in {"parsing", "fixups", "error"}
  \/ UNCHANGED <<phase, labels>>
  \/ /\ phase = "fixups" /\ fixups = <<>> /\ UNCHANGED labels
     /\ phase' \in {"disassembling", "executing"}

\* A step that leaves the bytes, the listing and the fixups alone keeps the invariant.
LEMMA CodeKept ==
  ASSUME CodeInv, UNCHANGED <<target, listing, code, fixups, relocations>>, Typed', PhaseStep
  PROVE CodeInv'
<1>1. Typed /\ Tiles /\ FixupsOK /\ EntriesOK
  BY DEF CodeInv
<1>2. Tiles'
  BY <1>1 DEF Tiles
<1>3. FixupsOK'
  <2>1. ASSUME NEW f, \E a \in 1 .. Len(fixups') : f = fixups'[a] PROVE HasFixup(f)'
    <3>1. HasFixup(f)
      BY <1>1, <2>1 DEF FixupsOK
    <3> QED
      BY <3>1, ListKept
  <2>2. \A r \in relocations' : HasRelocation(r)'
    BY <1>1, ListKept DEF FixupsOK
  <2>3. phase' \in {"disassembling", "executing"} => fixups' = <<>>
    BY <1>1 DEF FixupsOK, PhaseStep
  <2> QED
    BY <1>1, <2>1, <2>2, <2>3 DEF FixupsOK
<1>4. ASSUME NEW e, Listed(e)' PROVE EntryOK(e)'
  <2>1. EntryOK(e)
    BY <1>1, <1>4, ListKept DEF EntriesOK
  <2>2. ASSUME UsesLabel(e) PROVE Pending(e)' \/ Applied(e)'
    <3>1. Pending(e) \/ Applied(e)
      BY <2>1, <2>2 DEF EntryOK
    <3>2. CASE Pending(e)
      <4>1. \E a \in 1 .. Len(fixups') : fixups'[a] = FixupFor(e)
        BY <3>2 DEF Pending
      <4> QED
        BY <3>2, <4>1, PendingKept
    <3>3. CASE Applied(e)
      <4>1. phase \notin {"parsing", "error"}
        BY <3>3 DEF Applied
      <4>2. phase' \notin {"parsing", "error"} /\ UNCHANGED labels
        BY <4>1 DEF PhaseStep
      <4>3. \A a \in 1 .. Len(fixups') : fixups'[a].offset # FieldAt(e)
        BY <3>3 DEF Applied
      <4> QED
        BY <3>3, <4>2, <4>3, AppliedKept
    <3> QED
      BY <3>1, <3>2, <3>3
  <2>3. Len(code) \in Nat
    BY <1>1 DEF Typed
  <2> QED
    BY <2>1, <2>2, <2>3, EntryKept
<1>5. EntriesOK'
  BY <1>4 DEF EntriesOK
<1> QED
  BY <1>2, <1>3, <1>5 DEF CodeInv

-----------------------------------------------------------------------------
(* Applying a fixup.                                                       *)
LEMMA ValueString ==
  ASSUME NEW v \in Int, NEW k \in {4, 8}
  PROVE ValueBytes(v, k) \in Seq(Byte) /\ Len(ValueBytes(v, k)) = k
<1>1. PICK low, high, w : /\ low = LittleEndian(v, 4) /\ w = (IF v < 0 THEN -1 ELSE 0)
                          /\ high = LittleEndian(w, 4)
  OBVIOUS
<1>2. low \in Seq(Byte) /\ Len(low) = 4 /\ high \in Seq(Byte) /\ Len(high) = 4
  <2>1. w \in Int
    BY <1>1
  <2> QED
    BY <1>1, <2>1, LittleEndianBytes
<1>3. CASE k = 8
  <2>1. ValueBytes(v, k) = low \o high
    BY <1>1, <1>3 DEF ValueBytes
  <2>2. low \o high \in Seq(Byte) /\ Len(low \o high) = Len(low) + Len(high)
    BY <1>2, Concat
  <2>3. PICK both : both = low \o high
    OBVIOUS
  <2>4. both \in Seq(Byte) /\ Len(both) = 8
    BY <1>2, <2>2, <2>3
  <2>5. ValueBytes(v, k) = both
    BY <2>1, <2>3
  <2> QED
    BY ONLY <1>3, <2>4, <2>5
<1>4. CASE k = 4
  <2>1. ValueBytes(v, k) = low \o <<>>
    BY <1>1, <1>4 DEF ValueBytes
  <2>2. low \o <<>> = low
    BY <1>2, ConcatEmptySeq
  <2> QED
    BY <1>2, <1>4, <2>1, <2>2
<1> QED
  BY <1>3, <1>4

\* The first fixup belongs to an instruction whose field is still zero.
LEMMA HeadFixup ==
  ASSUME CodeInv, fixups # <<>>
  PROVE /\ Len(fixups) \in Nat \ {0} /\ Head(fixups) = fixups[1]
        /\ \E e : /\ Listed(e) /\ EntryOK(e) /\ UsesLabel(e)
                  /\ Head(fixups) = FixupFor(e) /\ Zeros(e)
<1>1. Typed /\ Tiles /\ FixupsOK /\ EntriesOK
  BY DEF CodeInv
<1>2. PICK S : fixups \in Seq(S)
  BY <1>1 DEF FixupsOK
<1>3. Len(fixups) \in Nat \ {0} /\ Head(fixups) = fixups[1]
  BY <1>2
<1>4. HasFixup(fixups[1])
  BY <1>1, <1>3 DEF FixupsOK
<1>5. PICK e : Listed(e) /\ UsesLabel(e) /\ fixups[1] = FixupFor(e)
  BY <1>4 DEF HasFixup
<1>6. EntryOK(e)
  BY <1>1, <1>5 DEF EntriesOK
<1>7. fixups[1].offset = FieldAt(e)
  BY <1>5, <1>6, FieldPlace
<1>8. ~Applied(e)
  BY <1>3, <1>7 DEF Applied
<1>9. Zeros(e)
  BY <1>5, <1>6, <1>8 DEF EntryOK, Pending
<1> QED
  BY <1>3, <1>5, <1>6, <1>9

\* The value that goes into the field of an instruction.
LEMMA FieldValue ==
  ASSUME Typed, NEW e, EntryOK(e), UsesLabel(e), Resolved(FixupFor(e))
  PROVE /\ FixupValue(FixupFor(e)) \in Int
        /\ ValueBytes(FixupValue(FixupFor(e)), FieldWidth(e)) \in Seq(Byte)
        /\ Len(ValueBytes(FixupValue(FixupFor(e)), FieldWidth(e))) = FieldWidth(e)
<1>1. PICK f : f = FixupFor(e)
  OBVIOUS
<1>2. f.offset = FieldAt(e) /\ FieldAt(e) \in Nat /\ FieldWidth(e) \in {4, 8}
  BY <1>1, FieldPlace
<1>3. f.addend \in Int
  BY <1>1 DEF FixupFor, FieldFixup
<1>4. labels[f.label] \in Nat
  BY <1>1 DEF Resolved, Typed
<1>5. FixupValue(f) \in Int
  BY <1>2, <1>3, <1>4 DEF FixupValue
<1>6. PICK v, k : v = FixupValue(f) /\ k = FieldWidth(e)
  OBVIOUS
<1>7. ValueBytes(v, k) \in Seq(Byte) /\ Len(ValueBytes(v, k)) = k
  BY <1>2, <1>5, <1>6, ValueString
<1> QED
  BY <1>1, <1>5, <1>6, <1>7

\* What a step of the backend does to the code: it writes the field of one instruction
\* or leaves a relocation for it.
Writes(e) ==
  /\ code' \in Seq(Byte) /\ Len(code') = Len(code)
  /\ \A b \in 1 .. Len(code) : b \notin FieldAt(e) + 1 .. e.end => code'[b] = code[b]
  /\ IF Resolved(FixupFor(e))
     THEN /\ relocations' = relocations
          /\ \A b \in FieldAt(e) + 1 .. e.end :
               code'[b] = ValueBytes(FixupValue(FixupFor(e)), FieldWidth(e))[b - FieldAt(e)]
     ELSE /\ code' = code
          /\ relocations' = relocations \cup {RelocationFor(e)}

\* applyFixup writes the field of the first fixup, or leaves its relocation.
LEMMA ApplyWrites ==
  ASSUME CodeInv, ApplyFixup, NEW e, EntryOK(e), UsesLabel(e), Head(fixups) = FixupFor(e), Zeros(e)
  PROVE Writes(e)
<1>1. Typed
  BY DEF CodeInv
<1>2. PICK f, at, w, value : /\ f = FixupFor(e) /\ at = FieldAt(e) /\ w = FieldWidth(e)
                             /\ value = ValueBytes(FixupValue(f), w)
  OBVIOUS
<1>3. /\ f.offset = at /\ FixupBytes(f.kind) = w /\ w \in {4, 8} /\ at \in Nat
      /\ at + w = e.end /\ e.end <= Len(code) /\ Len(code) \in Nat /\ code \in Seq(Byte)
  BY <1>1, <1>2, FieldPlace DEF EntryOK, Typed
<1>4. CASE Resolved(f)
  <2>1. value \in Seq(Byte) /\ Len(value) = w
    BY <1>1, <1>2, <1>4, FieldValue
  <2>2. /\ relocations' = relocations
        /\ code' = [k \in 1 .. Len(code) |->
                      IF k \in at + 1 .. at + w THEN (code[k] + value[k - at]) % 256
                      ELSE code[k]]
    BY <1>2, <1>3, <1>4 DEF ApplyFixup
  <2>3. ASSUME NEW b \in at + 1 .. at + w
        PROVE code'[b] = value[b - at] /\ value[b - at] \in Byte /\ b \in 1 .. Len(code)
    <3>1. b \in 1 .. Len(code) /\ b - at \in 1 .. w
      BY <1>3, <2>3
    <3>2. value[b - at] \in Byte
      BY <2>1, <3>1
    <3>3. code[b] = 0
      BY <1>2, <1>3, <2>3 DEF Zeros
    <3>4. code'[b] = (code[b] + value[b - at]) % 256
      BY <2>2, <2>3, <3>1
    <3>5. (0 + value[b - at]) % 256 = value[b - at]
      BY <3>2 DEF Byte
    <3> QED
      BY <3>1, <3>2, <3>3, <3>4, <3>5
  <2>4. ASSUME NEW b \in 1 .. Len(code), b \notin at + 1 .. at + w PROVE code'[b] = code[b]
    BY <2>2, <2>4
  <2>5. \A b \in 1 .. Len(code) : code'[b] \in Byte
    <3>1. \A b \in 1 .. Len(code) : code[b] \in Byte
      BY <1>3
    <3> QED
      BY <2>3, <2>4, <3>1
  <2>6. code' \in Seq(Byte) /\ Len(code') = Len(code)
    <3>1. code' = [b \in 1 .. Len(code) |-> code'[b]]
      BY <2>2
    <3> QED
      BY <1>3, <2>5, <3>1
  <2> QED
    BY <1>2, <1>3, <1>4, <2>2, <2>3, <2>4, <2>6 DEF Writes
<1>5. CASE ~Resolved(f)
  <2>1. code' = code
    BY <1>2, <1>5 DEF ApplyFixup
  <2>2. relocations' = relocations \cup {[at |-> f.offset, label |-> f.label,
                                          addend |-> f.addend, type |-> getRelocType(f.kind)]}
    BY <1>2, <1>5 DEF ApplyFixup
  <2>3. [at |-> f.offset, label |-> f.label, addend |-> f.addend, type |-> getRelocType(f.kind)]
          = RelocationFor(e)
    <3>1. f.label = LabelOf(e) /\ f.addend = (IF IsBranch(e) THEN -4 ELSE 0)
      BY <1>2 DEF FixupFor, FieldFixup
    <3>2. f.kind = IF IsBranch(e) THEN "pcrel32" ELSE IF target.is64 THEN "data8" ELSE "data4"
      BY <1>2 DEF FixupFor, FieldFixup
    <3>3. getRelocType(f.kind) = IF IsBranch(e) THEN "R_SB_PCREL32"
                                 ELSE IF target.is64 THEN "R_SB_ABS64" ELSE "R_SB_ABS32"
      BY <3>2 DEF getRelocType
    <3> QED
      BY <1>2, <1>3, <3>1, <3>3 DEF RelocationFor
  <2> QED
    BY <1>2, <1>3, <1>5, <2>1, <2>2, <2>3 DEF Writes
<1> QED
  BY <1>4, <1>5

\* The instruction whose fixup is applied ends up with its value or its relocation.
LEMMA AppliedNow ==
  ASSUME CodeInv, ApplyFixup, NEW e, EntryOK(e), UsesLabel(e), Head(fixups) = FixupFor(e),
         Zeros(e), Len(fixups) \in Nat \ {0}, Head(fixups) = fixups[1]
  PROVE Applied(e)'
<1>1. Typed /\ FixupsOK
  BY DEF CodeInv
<1>2. UNCHANGED <<target, labels, phase>> /\ phase = "fixups" /\ fixups' = Tail(fixups)
  BY DEF ApplyFixup, sourceVars
<1>3. /\ FixupFor(e)' = FixupFor(e) /\ FieldAt(e)' = FieldAt(e) /\ FieldWidth(e)' = FieldWidth(e)
      /\ RelocationFor(e)' = RelocationFor(e)
  BY <1>2, FieldKept
<1>4. Writes(e)
  BY ApplyWrites
<1>5. \A a \in 1 .. Len(fixups') : fixups'[a].offset # FieldAt(e)'
  <2>1. ASSUME NEW a \in 1 .. Len(fixups') PROVE fixups'[a].offset # FieldAt(e)
    <3>1. PICK S : fixups \in Seq(S)
      BY <1>1 DEF FixupsOK
    <3>2. Len(fixups') = Len(fixups) - 1 /\ fixups'[a] = fixups[a + 1]
      BY <1>2, <2>1, <3>1
    <3>3. a + 1 \in 1 .. Len(fixups) /\ 1 < a + 1 /\ 1 \in 1 .. Len(fixups)
      BY <2>1, <3>2
    <3>4. fixups[1].offset < fixups[a + 1].offset
      BY <1>1, <3>3 DEF FixupsOK
    <3>5. fixups[1].offset = FieldAt(e) /\ FieldAt(e) \in Nat
      BY FieldPlace
    <3>6. fixups[a + 1].offset \in Nat
      <4>1. HasFixup(fixups[a + 1])
        BY <1>1, <3>3 DEF FixupsOK
      <4>2. PICK d : Listed(d) /\ UsesLabel(d) /\ fixups[a + 1] = FixupFor(d)
        BY <4>1 DEF HasFixup
      <4>3. EntryOK(d)
        BY <4>2 DEF CodeInv, EntriesOK
      <4> QED
        BY <4>2, <4>3, FieldPlace
    <3> QED
      BY <3>2, <3>4, <3>5, <3>6
  <2> QED
    BY <1>3, <2>1
<1>6. PICK f, value : f = FixupFor(e) /\ value = ValueBytes(FixupValue(f), FieldWidth(e))
  OBVIOUS
<1>7. (Resolved(f)' <=> Resolved(f)) /\ FixupValue(f)' = FixupValue(f)
  BY <1>2, ResolvedKept
<1>8. ValueBytes(FixupValue(FixupFor(e)), FieldWidth(e))' = value
  <2>1. FixupValue(FixupFor(e))' = FixupValue(f)'
    BY <1>3, <1>6 DEF FixupValue
  <2> QED
    BY <1>3, <1>6, <1>7, <2>1 DEF ValueBytes
<1>9. Resolved(FixupFor(e))' <=> Resolved(f)
  BY <1>3, <1>6, <1>7 DEF Resolved
<1>10. CASE Resolved(f)
  <2>1. Patched(e)'
    BY <1>3, <1>4, <1>6, <1>8, <1>10 DEF Patched, Writes
  <2> QED
    BY <1>2, <1>5, <1>9, <1>10, <2>1 DEF Applied
<1>11. CASE ~Resolved(f)
  <2>1. Zeros(e)' /\ (RelocationFor(e) \in relocations)'
    BY <1>3, <1>4, <1>6, <1>11 DEF Zeros, Writes
  <2> QED
    BY <1>2, <1>5, <1>9, <1>11, <2>1 DEF Applied
<1> QED
  BY <1>10, <1>11

\* Every other instruction keeps its bytes and its fixup.
LEMMA OthersKept ==
  ASSUME CodeInv, ApplyFixup, NEW e, Listed(e), EntryOK(e), UsesLabel(e), Head(fixups) = FixupFor(e),
         Zeros(e), Len(fixups) \in Nat \ {0}, Head(fixups) = fixups[1],
         NEW d, Listed(d), d # e
  PROVE EntryOK(d)'
<1>1. Typed /\ Tiles /\ FixupsOK /\ EntryOK(d)
  BY DEF CodeInv, EntriesOK
<1>2. UNCHANGED <<target, labels, phase>> /\ phase = "fixups" /\ fixups' = Tail(fixups)
  BY DEF ApplyFixup, sourceVars
<1>3. Writes(e) /\ Len(code) \in Nat
  BY <1>1, ApplyWrites DEF Typed
<1>4. d.at \in Nat /\ d.end \in Nat /\ d.end <= Len(code) /\ e.at \in Nat /\ e.end \in Nat
  BY <1>1 DEF EntryOK
<1>5. ASSUME UsesLabel(d)
      PROVE /\ \A b \in d.at + 1 .. FieldAt(d) : code'[b] = code[b]
            /\ Pending(d)' \/ Applied(d)'
  <2>1. /\ d.at < FieldAt(d) /\ FieldAt(d) < d.end /\ FieldAt(d) \in Nat
        /\ FixupFor(d).offset = FieldAt(d)
    BY <1>1, <1>5, FieldPlace
  <2>2. /\ FieldAt(e) \in Nat /\ e.at < FieldAt(e) /\ FieldAt(e) < e.end
        /\ FixupFor(e).offset = FieldAt(e)
    BY FieldPlace
  <2>3. d.end <= e.at \/ e.end <= d.at
    BY <1>1, Apart
  <2>4. ASSUME NEW b \in d.at + 1 .. d.end PROVE code'[b] = code[b]
    <3>1. b \in 1 .. Len(code) /\ b \notin FieldAt(e) + 1 .. e.end
      BY <1>3, <1>4, <2>1, <2>2, <2>3
    <3> QED
      BY <1>3, <3>1 DEF Writes
  <2>5. \A b \in FieldAt(d) + 1 .. d.end : code'[b] = code[b]
    <3>1. \A b \in FieldAt(d) + 1 .. d.end : b \in d.at + 1 .. d.end
      BY <1>4, <2>1
    <3> QED
      BY <2>4, <3>1
  <2>6. \A b \in d.at + 1 .. FieldAt(d) : code'[b] = code[b]
    <3>1. \A b \in d.at + 1 .. FieldAt(d) : b \in d.at + 1 .. d.end
      BY <1>4, <2>1
    <3> QED
      BY <2>4, <3>1
  <2>7. PICK S : fixups \in Seq(S)
    BY <1>1 DEF FixupsOK
  <2>8. Len(fixups') = Len(fixups) - 1 /\ \A a \in 1 .. Len(fixups') : fixups'[a] = fixups[a + 1]
    BY <1>2, <2>7
  <2>9. CASE Pending(d)
    <3>1. PICK a \in 1 .. Len(fixups) : fixups[a] = FixupFor(d)
      BY <2>9 DEF Pending
    <3>2. FieldAt(d) # FieldAt(e)
      BY <1>1, <1>5, FieldsDiffer
    <3>3. a # 1
      BY <2>1, <2>2, <3>1, <3>2
    <3>4. a - 1 \in 1 .. Len(fixups') /\ (a - 1) + 1 = a
      BY <2>8, <3>3
    <3>5. fixups'[a - 1] = FixupFor(d)
      BY <2>8, <3>1, <3>4
    <3> QED
      BY <1>2, <2>5, <2>6, <2>9, <3>4, <3>5, PendingKept
  <2>10. CASE Applied(d)
    <3>1. \A a \in 1 .. Len(fixups') : fixups'[a].offset # FieldAt(d)
      <4>1. ASSUME NEW a \in 1 .. Len(fixups') PROVE fixups'[a].offset # FieldAt(d)
        <5>1. a + 1 \in 1 .. Len(fixups)
          BY <2>8, <4>1
        <5> QED
          BY <2>8, <2>10, <4>1, <5>1 DEF Applied
      <4> QED
        BY <4>1
    <3>2. relocations \subseteq relocations'
      BY <1>3 DEF Writes
    <3> QED
      BY <1>2, <2>5, <2>6, <2>10, <3>1, <3>2, AppliedKept
  <2> QED
    BY <1>1, <1>5, <2>6, <2>9, <2>10 DEF EntryOK
<1>6. Len(code') = Len(code)
  BY <1>3 DEF Writes
<1> QED
  BY <1>1, <1>2, <1>3, <1>5, <1>6, EntryKept

\* applyFixup keeps the invariant.
LEMMA ApplyKeeps ==
  ASSUME CodeInv, ApplyFixup
  PROVE CodeInv'
<1>1. Typed /\ Tiles /\ FixupsOK /\ EntriesOK
  BY DEF CodeInv
<1>2. /\ UNCHANGED <<target, listing, labels, phase, line, pendingMarker, offset>>
      /\ phase = "fixups" /\ fixups' = Tail(fixups) /\ fixups # <<>>
  BY DEF ApplyFixup, sourceVars, readVars
<1>3. /\ Len(fixups) \in Nat \ {0} /\ Head(fixups) = fixups[1]
      /\ \E e : /\ Listed(e) /\ EntryOK(e) /\ UsesLabel(e)
                /\ Head(fixups) = FixupFor(e) /\ Zeros(e)
  BY <1>2, HeadFixup
<1>4. PICK e : /\ Listed(e) /\ EntryOK(e) /\ UsesLabel(e)
               /\ Head(fixups) = FixupFor(e) /\ Zeros(e)
  BY <1>3
<1>5. Writes(e)
  BY <1>4, ApplyWrites
<1>6. code' \in Seq(Byte) /\ Len(code') = Len(code)
  BY <1>5 DEF Writes
<1>7. Typed'
  BY <1>1, <1>2, <1>6 DEF Typed
<1>8. Tiles'
  BY <1>1, <1>2, <1>6 DEF Tiles
<1>9. FixupsOK'
  <2>1. PICK S : fixups \in Seq(S)
    BY <1>1 DEF FixupsOK
  <2>2. /\ fixups' \in Seq(S) /\ Len(fixups') = Len(fixups) - 1
        /\ \A a \in 1 .. Len(fixups') : fixups'[a] = fixups[a + 1] /\ a + 1 \in 1 .. Len(fixups)
    BY <1>2, <2>1
  <2>3. ASSUME NEW f, \E a \in 1 .. Len(fixups') : f = fixups'[a] PROVE HasFixup(f)'
    <3>1. HasFixup(f)
      BY <1>1, <2>2, <2>3 DEF FixupsOK
    <3> QED
      BY <1>2, <3>1, ListKept
  <2>4. \A a, b \in 1 .. Len(fixups') : a < b => fixups'[a].offset < fixups'[b].offset
    <3>1. ASSUME NEW a \in 1 .. Len(fixups'), NEW b \in 1 .. Len(fixups'), a < b
          PROVE fixups'[a].offset < fixups'[b].offset
      <4>1. a + 1 < b + 1 /\ a + 1 \in 1 .. Len(fixups) /\ b + 1 \in 1 .. Len(fixups)
        BY <2>2, <3>1
      <4>2. fixups[a + 1].offset < fixups[b + 1].offset
        BY <1>1, <4>1 DEF FixupsOK
      <4> QED
        BY <2>2, <4>2
    <3> QED
      BY <3>1
  <2>5. ASSUME NEW r \in relocations' PROVE HasRelocation(r)'
    <3>1. r \in relocations \/ r = RelocationFor(e)
      BY <1>5, <2>5 DEF Writes
    <3>2. HasRelocation(r)
      BY <1>1, <1>4, <3>1 DEF FixupsOK, HasRelocation
    <3> QED
      BY <1>2, <3>2, ListKept
  <2> QED
    BY <1>2, <2>2, <2>3, <2>4, <2>5 DEF FixupsOK
<1>10. ASSUME NEW d, Listed(d)' PROVE EntryOK(d)'
  <2>1. Listed(d)
    BY <1>2, <1>10, ListKept
  <2>2. CASE d = e
    <3>1. Applied(e)'
      BY <1>3, <1>4, AppliedNow
    <3>2. \A b \in e.at + 1 .. FieldAt(e) : code'[b] = code[b]
      <4>1. FieldAt(e) \in Nat /\ FieldAt(e) < e.end
        BY <1>4, FieldPlace
      <4>2. e.at \in Nat /\ e.end \in Nat /\ e.end <= Len(code) /\ Len(code) \in Nat
        BY <1>1, <1>4 DEF EntryOK, Typed
      <4>3. \A b \in e.at + 1 .. FieldAt(e) : b \in 1 .. Len(code) /\ b \notin FieldAt(e) + 1 .. e.end
        BY <4>1, <4>2
      <4> QED
        BY <1>5, <4>3 DEF Writes
    <3>3. Len(code) \in Nat
      BY <1>1 DEF Typed
    <3> QED
      BY <1>2, <1>4, <1>6, <2>2, <3>1, <3>2, <3>3, EntryKept
  <2>3. CASE d # e
    BY <1>3, <1>4, <2>1, <2>3, OthersKept
  <2> QED
    BY <2>2, <2>3
<1>11. EntriesOK'
  BY <1>10 DEF EntriesOK
<1> QED
  BY <1>7, <1>8, <1>9, <1>11 DEF CodeInv

-----------------------------------------------------------------------------
(* Emitting an instruction.                                                *)

\* What is emitted for a line of the listing: bytes, and if the statement names a label
\* a zero field at their end with its fixup.
EmittedFor(e, r) ==
  /\ r.bytes \in Seq(Byte) /\ Len(r.bytes) > 0
  /\ \/ r.fixups = <<>> /\ ~UsesLabel(e)
     \/ /\ e.statement.name \in DOMAIN Records /\ UsesLabel(e)
        /\ ClassOf(e.statement.name) \in BranchClasses \cup AddressClasses
        /\ \E i, start :
             /\ i.name = e.statement.name /\ i.marker \in 0 .. 10
             /\ FormOf(i.name) # "BranchRel32" => HoldsReg(i.ops, 1)
             /\ start = MarkerBytes(i) \o LeadBytes(i) /\ start \in Seq(Byte) /\ Len(start) > 0
             /\ Leaves(r, start, FieldWidth(e),
                       FieldFixup(Len(start), LabelOf(e), IsBranch(e), target.is64))

\* The classes with a PC-relative field are those of the branch forms.
LEMMA BranchByClass ==
  ASSUME NEW c \in BranchClasses \cup AddressClasses
  PROVE (c \in BranchClasses) <=> (Class[c][2] \in {"BranchRel32", "RegCondBranch"})
<1>1. CASE c \in {"UncondBranch", "CondBranch", "Call", "TxnBeginRel"}
  <2>1. Class[c][2] = "BranchRel32"
    BY <1>1, LabelClassSizes
  <2> QED
    BY <1>1, <2>1 DEF BranchClasses
<1>2. CASE c = "RegCondBranch"
  <2>1. Class[c][2] = "RegCondBranch"
    BY <1>2, LabelClassSizes
  <2> QED
    BY <1>2, <2>1 DEF BranchClasses
<1>3. CASE c \in {"RI64", "ALURI", "CompareRI"}
  <2>1. Class[c][2] = c
    BY <1>3, LabelClassSizes
  <2> QED
    BY <1>3, <2>1 DEF BranchClasses
<1> QED
  BY <1>1, <1>2, <1>3 DEF BranchClasses, AddressClasses

\* A statement the matcher accepts is emitted as EmittedFor says.
LEMMA StatementEmits ==
  ASSUME Typed, NEW e, NEW s, e.statement = s, s.kind = "instruction", IsStatement(s),
         NEW marker \in 0 .. 10,
         NEW operands, operands = [k \in 1 .. Len(s.ops) |-> parseOperand(s.ops[k]).ops],
         \A k \in 1 .. Len(s.ops) : parseOperand(s.ops[k]).ok,
         NEW r, r = Encode([name |-> s.name, marker |-> marker, ops |-> Matched(s.name, operands)],
                           target.is64),
         r.ok
  PROVE EmittedFor(e, r)
<1>1. PICK i, is64, source :
        /\ i = [name |-> s.name, marker |-> marker, ops |-> Matched(s.name, operands)]
        /\ is64 = target.is64 /\ source = s.ops
  OBVIOUS
<1>2. i.name = s.name /\ i.marker = marker /\ r = Encode(i, is64) /\ is64 \in BOOLEAN
  BY <1>1 DEF Typed
<1>3. PICK n, kinds : kinds = OperandKinds[ClassOf(s.name)] /\ n = Len(kinds)
  OBVIOUS
<1>4. s.name \in DOMAIN Records /\ DOMAIN source = 1 .. n /\ Len(source) = n
  BY <1>1, <1>3 DEF IsStatement
<1>5. Filled(i, source)
  BY <1>1, MatchedFilled
<1>6. PICK branch, start, width :
        /\ branch = (ClassOf(i.name) \in BranchClasses) /\ start = MarkerBytes(i) \o LeadBytes(i)
        /\ width = IF branch \/ ~is64 THEN 4 ELSE 8
  OBVIOUS
<1>7. /\ r.bytes \in Seq(Byte) /\ Len(r.bytes) > 0
      /\ \/ r.fixups = <<>> /\ Numbers(source)
         \/ /\ n \in DOMAIN source /\ source[n][1] = "x"
            /\ ClassOf(i.name) \in BranchClasses \cup AddressClasses
            /\ FormOf(i.name) # "BranchRel32" => HoldsReg(i.ops, 1)
            /\ start \in Seq(Byte)
            /\ Leaves(r, start, width, FieldFixup(Len(start), source[n][2], branch, is64))
  <2>1. i.name \in DOMAIN Records /\ i.marker \in 0 .. 10 /\ Encode(i, is64).ok
    BY <1>2, <1>4
  <2>2. n = Len(OperandKinds[ClassOf(i.name)]) /\ r = Encode(i, is64)
    BY <1>2, <1>3
  <2>3. EmittedAs(i, source, r, is64)
    BY <1>2, <1>5, <2>1, EncodeEmits
  <2> QED
    BY <1>6, <2>2, <2>3 DEF EmittedAs
<1>8. CASE r.fixups = <<>> /\ Numbers(source)
  <2>1. ~UsesLabel(e)
    BY <1>1, <1>4, <1>8 DEF UsesLabel, IsLabel, Numbers
  <2> QED
    BY <1>7, <1>8, <2>1 DEF EmittedFor
<1>9. CASE /\ n \in DOMAIN source /\ source[n][1] = "x"
           /\ ClassOf(i.name) \in BranchClasses \cup AddressClasses
           /\ FormOf(i.name) # "BranchRel32" => HoldsReg(i.ops, 1)
           /\ start \in Seq(Byte)
           /\ Leaves(r, start, width, FieldFixup(Len(start), source[n][2], branch, is64))
  <2>1. UsesLabel(e) /\ LabelOf(e) = source[n][2]
    BY <1>1, <1>4, <1>9 DEF UsesLabel, IsLabel, LabelOf
  <2>2. branch <=> IsBranch(e)
    <3>1. PICK c : c = ClassOf(s.name)
      OBVIOUS
    <3>2. branch <=> (Class[c][2] \in {"BranchRel32", "RegCondBranch"})
      BY <1>2, <1>6, <1>9, <3>1, BranchByClass
    <3> QED
      BY <3>1, <3>2 DEF IsBranch, FormOf
  <2>3. width = FieldWidth(e)
    BY <1>1, <1>6, <2>2 DEF FieldWidth
  <2>4. FieldFixup(Len(start), source[n][2], branch, is64)
          = FieldFixup(Len(start), LabelOf(e), IsBranch(e), target.is64)
    BY <1>1, <2>1, <2>2 DEF FieldFixup
  <2>5. Len(start) > 0
    <3>1. LeadBytes(i) \in Seq(Byte) /\ Len(LeadBytes(i)) > 0
      BY <1>2, <1>4, <1>9, LeadString
    <3>2. MarkerBytes(i) \in Seq(Byte)
      BY <1>2, MarkerString
    <3>3. PICK m, o : m = MarkerBytes(i) /\ o = LeadBytes(i)
      OBVIOUS
    <3>4. Len(m \o o) = Len(m) + Len(o) /\ Len(m) \in Nat /\ Len(o) \in Nat
      BY <3>1, <3>2, <3>3, Concat
    <3> QED
      BY <1>6, <3>1, <3>3, <3>4
  <2>6. e.statement.name = i.name
    BY <1>2
  <2>7. Leaves(r, start, FieldWidth(e), FieldFixup(Len(start), LabelOf(e), IsBranch(e), target.is64))
    BY <1>9, <2>3, <2>4
  <2> QED
    BY <1>2, <1>4, <1>6, <1>7, <1>9, <2>1, <2>5, <2>6, <2>7 DEF EmittedFor
<1> QED
  BY <1>7, <1>8, <1>9

\* The state after one more instruction.
Extends(e, r) ==
  /\ e.at = Len(code) /\ e.end = Len(code) + Len(r.bytes)
  /\ code' = code \o r.bytes
  /\ fixups' = fixups \o [k \in 1 .. Len(r.fixups) |->
                            [r.fixups[k] EXCEPT !.offset = @ + Len(code)]]
  /\ listing' = Append(listing, e)
  /\ UNCHANGED <<target, relocations, labels, phase, offset>>

\* The code grows at its end.
LEMMA CodeGrows ==
  ASSUME Typed, NEW e, NEW r, EmittedFor(e, r), Extends(e, r)
  PROVE /\ code' \in Seq(Byte) /\ Len(code') = Len(code) + Len(r.bytes)
        /\ Len(code) \in Nat /\ Len(r.bytes) \in Nat \ {0}
        /\ \A b \in 1 .. Len(code) : code'[b] = code[b]
        /\ \A b \in 1 .. Len(r.bytes) : code'[Len(code) + b] = r.bytes[b]
<1>1. PICK bytes : bytes = r.bytes
  OBVIOUS
<1>2. code \in Seq(Byte) /\ bytes \in Seq(Byte) /\ Len(bytes) > 0 /\ code' = Join(code, bytes)
  BY <1>1 DEF Typed, EmittedFor, Extends, Join
<1>3. PICK m, n : m = Len(code) /\ n = Len(bytes)
  OBVIOUS
<1>4. m \in Nat /\ n \in Nat \ {0}
  BY <1>2, <1>3
<1>5. Joins(code', code, bytes, m, n, Byte)
  BY <1>2, <1>3, Joined
<1> QED
  BY <1>1, <1>3, <1>4, <1>5 DEF Joins

\* Where the new instruction ends its field.
LEMMA NewField ==
  ASSUME Typed, NEW e, NEW r, EmittedFor(e, r), Extends(e, r), UsesLabel(e)
  PROVE /\ e.statement.name \in DOMAIN Records
        /\ ClassOf(e.statement.name) \in BranchClasses \cup AddressClasses
        /\ e.at < FieldAt(e) /\ FieldAt(e) < e.end /\ FieldAt(e) \in Nat
        /\ Opened(e)' /\ Zeros(e)'
        /\ fixups' = fixups \o <<FixupFor(e)>>
<1>1. PICK i, start :
        /\ i.name = e.statement.name /\ i.marker \in 0 .. 10
        /\ FormOf(i.name) # "BranchRel32" => HoldsReg(i.ops, 1)
        /\ start = MarkerBytes(i) \o LeadBytes(i) /\ start \in Seq(Byte) /\ Len(start) > 0
        /\ Leaves(r, start, FieldWidth(e),
                  FieldFixup(Len(start), LabelOf(e), IsBranch(e), target.is64))
  BY DEF EmittedFor
<1>2. PICK bytes, n, w, m : bytes = r.bytes /\ n = Len(start) /\ w = FieldWidth(e) /\ m = Len(code)
  OBVIOUS
<1>3. /\ Len(bytes) = n + w /\ n \in Nat \ {0} /\ w \in {4, 8} /\ m \in Nat
      /\ \A j \in 1 .. n : bytes[j] = start[j]
      /\ \A j \in n + 1 .. n + w : bytes[j] = 0
  <2>1. w \in {4, 8}
    BY <1>2 DEF FieldWidth
  <2>2. n \in Nat \ {0} /\ m \in Nat
    BY <1>1, <1>2 DEF Typed
  <2>3. /\ Len(bytes) = n + w
        /\ \A j \in 1 .. n : bytes[j] = start[j]
        /\ \A j \in n + 1 .. n + w : bytes[j] = 0
    BY <1>1, <1>2 DEF Leaves
  <2> QED
    BY <2>1, <2>2, <2>3
<1>4. e.at = m /\ e.end = m + (n + w) /\ FieldAt(e) = m + n /\ target' = target
  <2>1. e.at = m /\ e.end = m + Len(bytes) /\ target' = target
    BY <1>2 DEF Extends
  <2>2. FieldAt(e) = e.end - w
    BY <1>2 DEF FieldAt
  <2> QED
    BY <1>3, <2>1, <2>2
<1>5. /\ \A b \in 1 .. m : code'[b] = code[b]
      /\ \A b \in 1 .. n + w : code'[m + b] = bytes[b]
  <2>1. /\ \A b \in 1 .. Len(code) : code'[b] = code[b]
        /\ \A b \in 1 .. Len(r.bytes) : code'[Len(code) + b] = r.bytes[b]
    BY CodeGrows
  <2> QED
    BY <1>2, <1>3, <2>1
<1>6. FieldAt(e)' = FieldAt(e)
  BY <1>4, FieldKept
<1>7. Zeros(e)'
  <2>1. ASSUME NEW b \in (m + n) + 1 .. m + (n + w) PROVE code'[b] = 0
    <3>1. b - m \in n + 1 .. n + w /\ b - m \in 1 .. n + w /\ m + (b - m) = b
      BY <1>3, <2>1
    <3> QED
      BY <1>3, <1>5, <3>1
  <2> QED
    BY <1>4, <1>6, <2>1 DEF Zeros
<1>8. Opened(e)'
  <2>1. ASSUME NEW j \in 1 .. n PROVE code'[e.at + j] = start[j]
    <3>1. j \in 1 .. n + w
      BY <1>3
    <3> QED
      BY <1>3, <1>4, <1>5, <3>1
  <2> QED
    BY <1>1, <1>2, <1>4, <1>6, <2>1 DEF Opened
<1>9. fixups' = fixups \o <<FixupFor(e)>>
  <2>1. PICK fx, label, branch, is64 :
          /\ label = LabelOf(e) /\ branch = IsBranch(e) /\ is64 = target.is64
          /\ fx = FieldFixup(n, label, branch, is64)
    OBVIOUS
  <2>2. r.fixups = <<fx>>
    BY <1>1, <1>2, <2>1 DEF Leaves
  <2>3. [fx EXCEPT !.offset = @ + m] = FieldFixup(n + m, label, branch, is64)
    <3>1. PICK addend, kind, yes :
            /\ fx = [offset |-> n, label |-> label, addend |-> addend, kind |-> kind, pcrel |-> yes]
            /\ FieldFixup(n + m, label, branch, is64)
                 = [offset |-> n + m, label |-> label, addend |-> addend, kind |-> kind,
                    pcrel |-> yes]
      BY <2>1 DEF FieldFixup
    <3>2. [fx EXCEPT !.offset = @ + m]
            = [offset |-> n + m, label |-> label, addend |-> addend, kind |-> kind, pcrel |-> yes]
      BY <3>1, MovedRecord
    <3> QED
      BY <3>1, <3>2
  <2>4. FieldFixup(n + m, label, branch, is64) = FixupFor(e)
    <3>1. n + m = FieldAt(e)
      BY <1>3, <1>4
    <3> QED
      BY <2>1, <3>1 DEF FixupFor
  <2>5. PICK moved : moved = [k \in 1 .. Len(r.fixups) |-> [r.fixups[k] EXCEPT !.offset = @ + m]]
    OBVIOUS
  <2>6. moved = <<[fx EXCEPT !.offset = @ + m]>>
    BY <2>2, <2>5
  <2>7. fixups' = fixups \o moved
    BY <1>2, <2>5 DEF Extends
  <2> QED
    BY <2>3, <2>4, <2>6, <2>7
<1>10. e.at < FieldAt(e) /\ FieldAt(e) < e.end /\ FieldAt(e) \in Nat
  BY <1>3, <1>4
<1>11. /\ e.statement.name \in DOMAIN Records
       /\ ClassOf(e.statement.name) \in BranchClasses \cup AddressClasses
  BY DEF EmittedFor
<1> QED
  BY <1>7, <1>8, <1>9, <1>10, <1>11

\* The list of fixups with or without one more.
LEMMA FixupsGrow ==
  ASSUME CodeInv, NEW e, NEW r, EmittedFor(e, r), Extends(e, r)
  PROVE /\ \E S : fixups' \in Seq(S)
        /\ Len(fixups) \in Nat /\ Len(fixups) <= Len(fixups') /\ Len(fixups') \in Nat
        /\ Len(fixups') <= Len(fixups) + (IF UsesLabel(e) THEN 1 ELSE 0)
        /\ \A a \in 1 .. Len(fixups) : fixups'[a] = fixups[a]
        /\ UsesLabel(e) => Len(fixups') = Len(fixups) + 1 /\ fixups'[Len(fixups) + 1] = FixupFor(e)
<1>1. Typed /\ FixupsOK
  BY DEF CodeInv
<1>2. PICK S : fixups \in Seq(S)
  BY <1>1 DEF FixupsOK
<1>3. PICK m : m = Len(fixups)
  OBVIOUS
<1>4. m \in Nat
  BY <1>2, <1>3
<1>5. CASE UsesLabel(e)
  <2>1. PICK fx : fx = FixupFor(e)
    OBVIOUS
  <2>2. PICK last : last = << fx >>
    OBVIOUS
  <2>3. fixups' = Join(fixups, last)
    BY <1>1, <1>5, <2>1, <2>2, NewField DEF Join
  <2>4. PICK V : V = S \cup {fx}
    OBVIOUS
  <2>5. fixups \in Seq(V) /\ last \in Seq(V) /\ Len(last) = 1 /\ last[1] = fx
    BY <1>2, <2>2, <2>4
  <2>6. Joins(fixups', fixups, last, m, 1, V)
    BY <1>3, <2>3, <2>5, Joined
  <2>7. /\ fixups' \in Seq(V) /\ Len(fixups') = m + 1
        /\ \A j \in 1 .. m : fixups'[j] = fixups[j]
        /\ fixups'[m + 1] = fx
    BY <2>5, <2>6 DEF Joins
  <2> QED
    BY <1>3, <1>4, <1>5, <2>1, <2>7
<1>6. CASE ~UsesLabel(e)
  <2>1. r.fixups = <<>>
    BY <1>6 DEF EmittedFor
  <2>2. PICK moved : moved = [k \in 1 .. Len(r.fixups) |-> [r.fixups[k] EXCEPT !.offset = @ + Len(code)]]
    OBVIOUS
  <2>3. moved = <<>>
    BY <2>1, <2>2
  <2>4. fixups' = fixups \o <<>>
    BY <2>2, <2>3 DEF Extends
  <2>5. fixups' = fixups
    BY <1>2, <2>4, ConcatEmptySeq
  <2> QED
    BY <1>2, <1>3, <1>4, <1>6, <2>5
<1> QED
  BY <1>5, <1>6

\* The listing with one more line.
LEMMA ListGrows ==
  ASSUME Tiles, NEW e, NEW r, Extends(e, r)
  PROVE /\ \E S : listing' \in Seq(S)
        /\ Len(listing) \in Nat /\ Len(listing') = Len(listing) + 1
        /\ \A k \in 1 .. Len(listing) : listing'[k] = listing[k]
        /\ listing'[Len(listing) + 1] = e
        /\ \A d : Listed(d)' <=> (Listed(d) \/ d = e)
<1>1. PICK S : listing \in Seq(S)
  BY DEF Tiles
<1>2. PICK V : V = S \cup {e}
  OBVIOUS
<1>3. listing \in Seq(V) /\ e \in V /\ listing' = Append(listing, e)
  BY <1>1, <1>2 DEF Extends
<1>4. /\ listing' \in Seq(V) /\ Len(listing) \in Nat /\ Len(listing') = Len(listing) + 1
      /\ \A k \in 1 .. Len(listing) : listing'[k] = listing[k]
      /\ listing'[Len(listing) + 1] = e
  BY <1>3, AppendProperties
<1>5. ASSUME NEW d PROVE Listed(d)' <=> (Listed(d) \/ d = e)
  <2>1. ASSUME Listed(d)' PROVE Listed(d) \/ d = e
    <3>1. PICK k \in 1 .. Len(listing') : d = listing'[k]
      BY <2>1 DEF Listed
    <3>2. k \in 1 .. Len(listing) \/ k = Len(listing) + 1
      BY <1>4, <3>1
    <3> QED
      BY <1>4, <3>1, <3>2 DEF Listed
  <2>2. ASSUME Listed(d) PROVE Listed(d)'
    <3>1. PICK k \in 1 .. Len(listing) : d = listing[k]
      BY <2>2 DEF Listed
    <3>2. k \in 1 .. Len(listing') /\ d = listing'[k]
      BY <1>4, <3>1
    <3> QED
      BY <3>2 DEF Listed
  <2>3. ASSUME d = e PROVE Listed(d)'
    <3>1. Len(listing) + 1 \in 1 .. Len(listing')
      BY <1>4
    <3> QED
      BY <1>4, <2>3, <3>1 DEF Listed
  <2> QED
    BY <2>1, <2>2, <2>3
<1> QED
  BY <1>4, <1>5

\* An instruction already listed when another is emitted.
LEMMA OldEntryKept ==
  ASSUME CodeInv, phase = "parsing", NEW e, NEW r, EmittedFor(e, r), Extends(e, r),
         NEW d, Listed(d)
  PROVE EntryOK(d)'
<1>1. Typed /\ EntryOK(d)
  BY DEF CodeInv, EntriesOK
<1>2. target' = target
  BY DEF Extends
<1>3. /\ Len(code) \in Nat /\ Len(code') \in Nat /\ Len(code) <= Len(code')
      /\ \A b \in 1 .. Len(code) : code'[b] = code[b]
  <2>1. /\ Len(code') = Len(code) + Len(r.bytes)
        /\ Len(code) \in Nat /\ Len(r.bytes) \in Nat \ {0}
        /\ \A b \in 1 .. Len(code) : code'[b] = code[b]
    BY <1>1, CodeGrows
  <2> QED
    BY <2>1
<1>4. ASSUME UsesLabel(d)
      PROVE /\ \A b \in d.at + 1 .. FieldAt(d) : code'[b] = code[b]
            /\ Pending(d)' \/ Applied(d)'
  <2>1. d.at \in Nat /\ d.end \in Nat /\ d.end <= Len(code)
    BY <1>1 DEF EntryOK
  <2>2. FieldAt(d) \in Nat /\ FieldAt(d) < d.end
    BY <1>1, <1>4, FieldPlace
  <2>3. \A b \in d.at + 1 .. FieldAt(d) : code'[b] = code[b]
    <3>1. \A b \in d.at + 1 .. FieldAt(d) : b \in 1 .. Len(code)
      BY <1>3, <2>1, <2>2
    <3> QED
      BY <1>3, <3>1
  <2>4. \A b \in FieldAt(d) + 1 .. d.end : code'[b] = code[b]
    <3>1. \A b \in FieldAt(d) + 1 .. d.end : b \in 1 .. Len(code)
      BY <1>3, <2>1, <2>2
    <3> QED
      BY <1>3, <3>1
  <2>5. Pending(d)
    BY <1>1, <1>4 DEF EntryOK, Applied
  <2>6. PICK a \in 1 .. Len(fixups) : fixups[a] = FixupFor(d)
    BY <2>5 DEF Pending
  <2>7. a \in 1 .. Len(fixups') /\ fixups'[a] = FixupFor(d)
    <3>1. /\ Len(fixups) \in Nat /\ Len(fixups) <= Len(fixups') /\ Len(fixups') \in Nat
          /\ \A c \in 1 .. Len(fixups) : fixups'[c] = fixups[c]
      BY FixupsGrow
    <3> QED
      BY <2>6, <3>1
  <2> QED
    BY <1>2, <2>3, <2>4, <2>5, <2>7, PendingKept
<1> QED
  BY <1>1, <1>2, <1>3, <1>4, EntryKept

\* The new line of the listing is in order.
LEMMA NewEntryOK ==
  ASSUME CodeInv, phase = "parsing", NEW e, NEW r, EmittedFor(e, r), Extends(e, r)
  PROVE EntryOK(e)'
<1>1. Typed
  BY DEF CodeInv
<1>2. target' = target /\ e.at = Len(code) /\ e.end = Len(code) + Len(r.bytes)
  BY DEF Extends
<1>3. /\ Len(code') = Len(code) + Len(r.bytes)
      /\ Len(code) \in Nat /\ Len(r.bytes) \in Nat \ {0}
  BY <1>1, CodeGrows
<1>4. e.at \in Nat /\ e.end \in Nat /\ e.at < e.end /\ e.end <= Len(code')
  BY <1>2, <1>3
<1>5. ASSUME UsesLabel(e)
      PROVE /\ e.statement.name \in DOMAIN Records
            /\ ClassOf(e.statement.name) \in BranchClasses \cup AddressClasses
            /\ e.at < FieldAt(e)' /\ Opened(e)' /\ Pending(e)'
  <2>1. FieldAt(e)' = FieldAt(e) /\ FixupFor(e)' = FixupFor(e)
    BY <1>2, FieldKept
  <2>2. /\ e.statement.name \in DOMAIN Records
        /\ ClassOf(e.statement.name) \in BranchClasses \cup AddressClasses
        /\ e.at < FieldAt(e) /\ Opened(e)' /\ Zeros(e)'
    BY <1>1, <1>5, NewField
  <2>3. Len(fixups) \in Nat /\ Len(fixups') = Len(fixups) + 1 /\ fixups'[Len(fixups) + 1] = FixupFor(e)
    BY <1>5, FixupsGrow
  <2>4. Len(fixups) + 1 \in 1 .. Len(fixups')
    BY <2>3
  <2>5. Pending(e)'
    BY <2>1, <2>2, <2>3, <2>4 DEF Pending
  <2> QED
    BY <2>1, <2>2, <2>5
<1> QED
  BY <1>4, <1>5 DEF EntryOK

\* Emitting an instruction keeps the invariant.
LEMMA EmitKeeps ==
  ASSUME CodeInv, phase = "parsing", NEW e, NEW r, EmittedFor(e, r), Extends(e, r),
         line' \in Nat \ {0}, pendingMarker' \in 0 .. 10
  PROVE CodeInv'
<1>1. Typed /\ Tiles /\ FixupsOK /\ EntriesOK
  BY DEF CodeInv
<1>2. UNCHANGED <<target, relocations, labels, phase, offset>>
  BY DEF Extends
<1>3. /\ code' \in Seq(Byte) /\ Len(code') = Len(code) + Len(r.bytes)
      /\ Len(code) \in Nat /\ Len(r.bytes) \in Nat \ {0}
  BY <1>1, CodeGrows
<1>4. Typed'
  <2>1. offset' = 0
    BY <1>1, <1>2 DEF Typed
  <2>2. 0 \in 0 .. Len(code')
    BY <1>3
  <2> QED
    BY <1>1, <1>2, <1>3, <2>1, <2>2 DEF Typed
<1>5. PICK S : listing' \in Seq(S)
  BY <1>1, ListGrows
<1>6. PICK n : n = Len(listing)
  OBVIOUS
<1>7. /\ n \in Nat /\ Len(listing') = n + 1
      /\ \A k \in 1 .. n : listing'[k] = listing[k]
      /\ listing'[n + 1] = e
  BY <1>1, <1>6, ListGrows
<1>8. \A d : Listed(d)' <=> (Listed(d) \/ d = e)
  BY <1>1, ListGrows
<1>9. e.at = Len(code) /\ e.end = Len(code')
  BY <1>3 DEF Extends
<1>10. \A k \in 1 .. n : listing[k].end <= Len(code)
  <2>1. ASSUME NEW k \in 1 .. n PROVE listing[k].end <= Len(code)
    <3>1. Listed(listing[k])
      BY <1>6 DEF Listed
    <3> QED
      BY <1>1, <3>1 DEF EntriesOK, EntryOK
  <2> QED
    BY <2>1
<1>11. Tiles'
  <2>1. \A k \in 1 .. Len(listing') :
          listing'[k].at = IF k = 1 THEN 0 ELSE listing'[k - 1].end
    <3>1. ASSUME NEW k \in 1 .. n + 1
          PROVE listing'[k].at = IF k = 1 THEN 0 ELSE listing'[k - 1].end
      <4>1. CASE k \in 1 .. n
        <5>1. listing[k].at = IF k = 1 THEN 0 ELSE listing[k - 1].end
          BY <1>1, <1>6, <4>1 DEF Tiles
        <5>2. k # 1 => k - 1 \in 1 .. n
          BY <1>7, <4>1
        <5> QED
          BY <1>7, <4>1, <5>1, <5>2
      <4>2. CASE k = n + 1
        <5>1. listing'[k].at = Len(code)
          BY <1>7, <1>9, <4>2
        <5>2. CASE n = 0
          <6>0. PICK T : listing \in Seq(T)
            BY <1>1 DEF Tiles
          <6>1. listing = <<>>
            BY <1>6, <5>2, <6>0, EmptySeq
          <6>2. Len(code) = 0
            BY <1>1, <6>1 DEF Tiles
          <6> QED
            BY <4>2, <5>1, <5>2, <6>2
        <5>3. CASE n # 0
          <6>1. listing # <<>> /\ n \in 1 .. n
            BY <1>6, <1>7, <5>3
          <6>2. Len(code) = listing[n].end
            BY <1>1, <1>6, <6>1 DEF Tiles
          <6>3. listing'[k - 1] = listing[n] /\ k # 1
            BY <1>7, <4>2, <5>3, <6>1
          <6> QED
            BY <5>1, <6>2, <6>3
        <5> QED
          BY <5>2, <5>3
      <4>3. k \in 1 .. n \/ k = n + 1
        BY <1>7, <3>1
      <4> QED
        BY <4>1, <4>2, <4>3
    <3> QED
      BY <1>7, <3>1
  <2>2. listing' # <<>> /\ listing'[Len(listing')].end = Len(code')
    BY <1>5, <1>7, <1>9
  <2>3. \A j, k \in 1 .. Len(listing') : j < k => listing'[j].end <= listing'[k].at
    <3>1. ASSUME NEW j \in 1 .. n + 1, NEW k \in 1 .. n + 1, j < k
          PROVE listing'[j].end <= listing'[k].at
      <4>1. j \in 1 .. n /\ (k \in 1 .. n \/ k = n + 1)
        BY <1>7, <3>1
      <4>2. CASE k \in 1 .. n
        BY <1>1, <1>6, <1>7, <3>1, <4>1, <4>2 DEF Tiles
      <4>3. CASE k = n + 1
        BY <1>7, <1>9, <1>10, <4>1, <4>3
      <4> QED
        BY <4>1, <4>2, <4>3
    <3> QED
      BY <1>7, <3>1
  <2> QED
    BY <1>5, <2>1, <2>2, <2>3 DEF Tiles
<1>12. ASSUME NEW d, Listed(d)' PROVE EntryOK(d)'
  BY <1>8, <1>12, OldEntryKept, NewEntryOK
<1>13. EntriesOK'
  BY <1>12 DEF EntriesOK
<1>14. FixupsOK'
  <2>1. PICK m : m = Len(fixups)
    OBVIOUS
  <2>2. /\ m \in Nat /\ Len(fixups') \in Nat /\ m <= Len(fixups')
        /\ Len(fixups') <= m + (IF UsesLabel(e) THEN 1 ELSE 0)
        /\ \A a \in 1 .. m : fixups'[a] = fixups[a]
        /\ UsesLabel(e) => Len(fixups') = m + 1 /\ fixups'[m + 1] = FixupFor(e)
    BY <2>1, FixupsGrow
  <2>3. \E T : fixups' \in Seq(T)
    BY FixupsGrow
  <2>4. ASSUME NEW a \in 1 .. Len(fixups')
        PROVE \/ a \in 1 .. m /\ fixups'[a] = fixups[a]
              \/ UsesLabel(e) /\ a = m + 1 /\ fixups'[a] = FixupFor(e)
    BY <2>2, <2>4
  <2>5. ASSUME NEW f, HasFixup(f) PROVE HasFixup(f)'
    <3>1. PICK d : Listed(d) /\ UsesLabel(d) /\ f = FixupFor(d)
      BY <2>5 DEF HasFixup
    <3>2. FixupFor(d)' = FixupFor(d)
      BY <1>2, FieldKept
    <3> QED
      BY <1>8, <3>1, <3>2 DEF HasFixup
  <2>6. UsesLabel(e) => HasFixup(FixupFor(e))'
    <3>1. FixupFor(e)' = FixupFor(e)
      BY <1>2, FieldKept
    <3> QED
      BY <1>8, <3>1 DEF HasFixup
  <2>7. ASSUME NEW f, \E a \in 1 .. Len(fixups') : f = fixups'[a] PROVE HasFixup(f)'
    <3>1. PICK a \in 1 .. Len(fixups') : f = fixups'[a]
      BY <2>7
    <3>2. CASE a \in 1 .. m /\ fixups'[a] = fixups[a]
      <4>1. HasFixup(f)
        BY <1>1, <2>1, <3>1, <3>2 DEF FixupsOK
      <4> QED
        BY <2>5, <4>1
    <3>3. CASE UsesLabel(e) /\ fixups'[a] = FixupFor(e)
      <4>1. f = FixupFor(e) /\ FixupFor(e)' = FixupFor(e)
        BY <1>2, <3>1, <3>3, FieldKept
      <4> QED
        BY <1>8, <3>3, <4>1 DEF HasFixup
    <3> QED
      BY <2>4, <3>1, <3>2, <3>3
  <2>8. ASSUME NEW a \in 1 .. m PROVE fixups[a].offset \in Nat /\ fixups[a].offset < Len(code)
    <3>1. HasFixup(fixups[a])
      BY <1>1, <2>1, <2>8 DEF FixupsOK
    <3>2. PICK d : Listed(d) /\ UsesLabel(d) /\ fixups[a] = FixupFor(d)
      BY <3>1 DEF HasFixup
    <3>3. EntryOK(d)
      BY <1>1, <3>2 DEF EntriesOK
    <3>4. fixups[a].offset = FieldAt(d) /\ FieldAt(d) \in Nat /\ FieldAt(d) < d.end
      BY <3>2, <3>3, FieldPlace
    <3>5. d.end <= Len(code) /\ d.end \in Nat
      BY <3>3 DEF EntryOK
    <3> QED
      BY <1>3, <3>4, <3>5
  <2>9. ASSUME NEW a \in 1 .. Len(fixups'), NEW b \in 1 .. Len(fixups'), a < b
        PROVE fixups'[a].offset < fixups'[b].offset
    <3>1. a \in 1 .. m /\ fixups'[a] = fixups[a]
      BY <2>2, <2>9
    <3>2. CASE b \in 1 .. m /\ fixups'[b] = fixups[b]
      BY <1>1, <2>1, <2>9, <3>1, <3>2 DEF FixupsOK
    <3>3. CASE UsesLabel(e) /\ fixups'[b] = FixupFor(e)
      <4>1. EntryOK(e)' /\ FieldAt(e)' = FieldAt(e) /\ FixupFor(e)' = FixupFor(e)
        BY <1>2, NewEntryOK, FieldKept
      <4>2. e.at < FieldAt(e) /\ FieldAt(e) \in Nat
        BY <1>1, <3>3, NewField
      <4>3. FixupFor(e).offset = FieldAt(e)
        BY DEF FixupFor, FieldFixup
      <4>4. fixups[a].offset \in Nat /\ fixups[a].offset < Len(code)
        BY <2>8, <3>1
      <4> QED
        BY <1>3, <1>9, <3>1, <3>3, <4>2, <4>3, <4>4
    <3> QED
      BY <2>4, <3>2, <3>3
  <2>10. ASSUME NEW q \in relocations' PROVE HasRelocation(q)'
    <3>1. HasRelocation(q)
      BY <1>1, <1>2, <2>10 DEF FixupsOK
    <3>2. PICK d : Listed(d) /\ UsesLabel(d) /\ q = RelocationFor(d)
      BY <3>1 DEF HasRelocation
    <3>3. RelocationFor(d)' = RelocationFor(d)
      BY <1>2, FieldKept
    <3> QED
      BY <1>8, <3>2, <3>3 DEF HasRelocation
  <2> QED
    BY <1>2, <2>3, <2>7, <2>9, <2>10 DEF FixupsOK
<1> QED
  BY <1>4, <1>11, <1>13, <1>14 DEF CodeInv

-----------------------------------------------------------------------------
(* Every step keeps the invariant.                                         *)
LEMMA MarkerRange == ASSUME NEW name PROVE parseMarkerName(name) \in 0 .. 10
BY SMT DEF parseMarkerName, Marker

\* The first state: an empty section.
LEMMA CodeInit == AsmInit => CodeInv
<1> SUFFICES ASSUME AsmInit PROVE CodeInv
  OBVIOUS
<1>1. /\ code = <<>> /\ listing = <<>> /\ fixups = <<>> /\ labels = <<>> /\ relocations = {}
      /\ target \in Targets /\ phase = "parsing" /\ line = 1 /\ offset = 0 /\ pendingMarker = Marker.none
  BY DEF AsmInit
<1>2. Len(code) = 0 /\ Len(listing) = 0 /\ Len(fixups) = 0
  BY <1>1
<1>3. code \in Seq(Byte) /\ listing \in Seq({}) /\ fixups \in Seq({})
  BY <1>1
<1>4. target.is64 \in BOOLEAN
  BY <1>1, TargetsAssumption
<1>5. pendingMarker \in 0 .. 10
  BY <1>1 DEF Marker
<1>6. \A l \in DOMAIN labels : labels[l] \in Nat
  BY <1>1
<1>7. Typed
  BY <1>1, <1>2, <1>3, <1>4, <1>5, <1>6 DEF Typed
<1>8. Tiles
  BY <1>1, <1>2, <1>3 DEF Tiles
<1>9. FixupsOK
  BY <1>1, <1>2, <1>3 DEF FixupsOK
<1>10. EntriesOK
  BY <1>2 DEF EntriesOK, Listed
<1> QED
  BY <1>7, <1>8, <1>9, <1>10 DEF CodeInv

\* A directive or a rejected line: the bytes stay, and so do the labels.
LEMMA LineKeeps ==
  ASSUME CodeInv, phase = "parsing", phase' \in {"parsing", "error"},
         UNCHANGED <<target, listing, labels, code, fixups, relocations, offset>>,
         NextLine, pendingMarker' \in 0 .. 10
  PROVE CodeInv'
<1>1. Typed
  BY DEF CodeInv
<1>2. Typed'
  BY <1>1 DEF Typed, NextLine
<1> QED
  BY <1>2, CodeKept DEF PhaseStep

\* A label keeps the invariant.
LEMMA LabelKeeps ==
  ASSUME CodeInv, phase = "parsing", NEW s, DefineLabel(s)
  PROVE CodeInv'
<1>1. Typed
  BY DEF CodeInv
<1>2. /\ UNCHANGED <<target, pendingMarker, listing, code, fixups, relocations, phase, offset>>
      /\ line' = line + 1
      /\ labels' = [l \in DOMAIN labels \cup {s.name} |->
                      IF l = s.name THEN Len(code) ELSE labels[l]]
  BY DEF DefineLabel, objectVars, readVars, NextLine
<1>3. \A l \in DOMAIN labels' : labels'[l] \in Nat
  BY <1>1, <1>2 DEF Typed
<1>4. Typed'
  BY <1>1, <1>2, <1>3 DEF Typed
<1> QED
  BY <1>2, <1>4, CodeKept DEF PhaseStep

\* An instruction, accepted or rejected, keeps the invariant.
LEMMA InstructionKeepsCode ==
  ASSUME CodeInv, phase = "parsing", NEW s, IsStatement(s), assembleInstruction(s)
  PROVE CodeInv'
<1>1. PICK parsed, operands, marker :
        /\ parsed = [k \in 1 .. Len(s.ops) |-> parseOperand(s.ops[k])]
        /\ operands = [k \in 1 .. Len(s.ops) |-> parsed[k].ops]
        /\ marker = pendingMarker'
  OBVIOUS
<1>2. PICK r : r = Encode([name |-> s.name, marker |-> marker, ops |-> Matched(s.name, operands)],
                          target.is64)
  OBVIOUS
<1>3. /\ s.kind = "instruction" /\ NextLine /\ marker \in 0 .. 10
      /\ UNCHANGED <<target, labels, relocations, offset>>
  BY <1>1, MarkerRange DEF assembleInstruction, readVars, MarkerOf
<1>4. \/ Error /\ UNCHANGED <<listing, code, fixups>>
      \/ (\A k \in 1 .. Len(s.ops) : parsed[k].ok) /\ EmitInstruction(s, r)
  BY <1>1, <1>2 DEF assembleInstruction
<1>5. \/ Error /\ UNCHANGED <<listing, code, fixups>>
      \/ (\A k \in 1 .. Len(s.ops) : parsed[k].ok) /\ r.ok /\ EmitInstruction(s, r)
  BY <1>4 DEF EmitInstruction
<1>6. CASE Error /\ UNCHANGED <<listing, code, fixups>>
  BY <1>1, <1>3, <1>6, LineKeeps DEF Error
<1>7. CASE (\A k \in 1 .. Len(s.ops) : parsed[k].ok) /\ r.ok /\ EmitInstruction(s, r)
  <2>1. PICK e : e = [statement |-> s, at |-> Len(code), end |-> Len(code) + Len(r.bytes),
                      features |-> features]
    OBVIOUS
  <2>2. e.statement = s /\ e.at = Len(code) /\ e.end = Len(code) + Len(r.bytes)
    BY <2>1
  <2>3. Typed
    BY DEF CodeInv
  <2>4. operands = [k \in 1 .. Len(s.ops) |-> parseOperand(s.ops[k]).ops]
    BY <1>1
  <2>5. \A k \in 1 .. Len(s.ops) : parseOperand(s.ops[k]).ok
    BY <1>1, <1>7
  <2>6. EmittedFor(e, r)
    BY <1>2, <1>3, <1>7, <2>2, <2>3, <2>4, <2>5, StatementEmits
  <2>7. Extends(e, r)
    BY <1>3, <1>7, <2>1, <2>2 DEF Extends, EmitInstruction
  <2>8. line' \in Nat \ {0} /\ pendingMarker' \in 0 .. 10
    BY <1>1, <1>3, <2>3 DEF NextLine, Typed
  <2> QED
    BY <2>6, <2>7, <2>8, EmitKeeps
<1> QED
  BY <1>5, <1>6, <1>7

\* A statement keeps the invariant.
LEMMA ParseKeeps ==
  ASSUME CodeInv, ParseStatement
  PROVE CodeInv'
<1>1. Typed
  BY DEF CodeInv
<1>2. phase = "parsing" /\ line <= Len(Menu) /\ line \in Nat \ {0} /\ Len(Menu) \in Nat
  BY <1>1, MenuAssumption DEF ParseStatement, Typed
<1>3. line \in 1 .. Len(Menu)
  BY <1>2
<1>4. PICK s \in Menu[line] : \/ parseCPUOrArchDirective(s)
                              \/ parseModeDirective(s)
                              \/ DefineLabel(s)
                              \/ assembleInstruction(s)
  BY DEF ParseStatement
<1>5. IsStatement(s)
  BY <1>3, MenuAssumption
<1>6. CASE parseCPUOrArchDirective(s)
  <2>1. /\ phase' \in {"parsing", "error"} /\ NextLine
        /\ UNCHANGED <<target, pendingMarker, listing, labels, code, fixups, relocations, offset>>
    BY <1>2, <1>6 DEF parseCPUOrArchDirective, Error, objectVars, readVars
  <2> QED
    BY <1>1, <1>2, <2>1, LineKeeps DEF Typed
<1>7. CASE parseModeDirective(s)
  <2>1. /\ phase' \in {"parsing", "error"} /\ NextLine
        /\ UNCHANGED <<target, pendingMarker, listing, labels, code, fixups, relocations, offset>>
    BY <1>2, <1>7 DEF parseModeDirective, Error, objectVars, readVars
  <2> QED
    BY <1>1, <1>2, <2>1, LineKeeps DEF Typed
<1> QED
  BY <1>2, <1>4, <1>5, <1>6, <1>7, LabelKeeps, InstructionKeepsCode

\* A reader ends inside the section.
LEMMA ReadKeeps ==
  ASSUME CodeInv, phase \in {"disassembling", "executing"}, NEW next, ReadOne(next),
         offset + next.size \in 0 .. Len(code)
  PROVE CodeInv'
<1>1. Typed
  BY DEF CodeInv
<1>2. /\ UNCHANGED <<target, listing, line, labels, pendingMarker, code, fixups, relocations, phase>>
      /\ offset' = offset + next.size
  BY DEF ReadOne, sourceVars, objectVars
<1>3. offset' \in 0 .. Len(code')
  BY <1>1, <1>2 DEF Typed
<1>4. Typed'
  BY <1>1, <1>2, <1>3 DEF Typed
<1> QED
  BY <1>2, <1>4, CodeKept DEF PhaseStep

\* What is left to disassemble.
LEMMA RemainingString ==
  ASSUME Typed
  PROVE Remaining \in Seq(Byte) /\ Len(Remaining) = Len(code) - offset
<1>1. code \in Seq(Byte) /\ offset \in 0 .. Len(code) /\ Len(code) \in Nat
  BY DEF Typed
<1>2. offset + 1 \in 1 .. Len(code) + 1
  BY <1>1
<1>3. offset + 1 \in 1 .. Len(code) \/ Len(code) < offset + 1
  BY <1>1
<1>4. Remaining \in Seq(Byte)
      /\ Len(Remaining) = IF offset + 1 <= Len(code) THEN Len(code) - (offset + 1) + 1 ELSE 0
  BY <1>1, <1>3, SubSeqProperties DEF Remaining
<1> QED
  BY <1>1, <1>4

\* A call of getInstruction leaves the reader inside the section.
LEMMA DisassembleKeeps ==
  ASSUME CodeInv, DisassembleOne
  PROVE CodeInv'
<1>1. Typed
  BY DEF CodeInv
<1>2. PICK next, is64, bytes :
        bytes = Remaining /\ is64 = target.is64 /\ next = GetInstruction(bytes, is64)
  OBVIOUS
<1>3. phase = "disassembling" /\ ReadOne(next) /\ next.ok
  BY <1>2 DEF DisassembleOne, ReadOne
<1>4. bytes \in Seq(Byte) /\ Len(bytes) = Len(code) - offset /\ is64 \in BOOLEAN
  BY <1>1, <1>2, RemainingString DEF Typed
<1>5. Fits(bytes, next)
  BY <1>2, <1>4, GetInstructionFits
<1>6. offset + next.size \in 0 .. Len(code)
  <2>1. next.size \in Nat /\ next.size <= Len(code) - offset
    BY <1>3, <1>4, <1>5 DEF Fits
  <2> QED
    BY <1>1, <2>1 DEF Typed
<1> QED
  BY <1>3, <1>6, ReadKeeps

\* A call of decode_at leaves the reader inside the section.
LEMMA FetchKeeps ==
  ASSUME CodeInv, FetchOne
  PROVE CodeInv'
<1>1. Typed
  BY DEF CodeInv
<1>2. PICK next : next = DecodeAt(code, offset)
  OBVIOUS
<1>3. phase = "executing" /\ ReadOne(next) /\ next.ok
  BY <1>2 DEF FetchOne, ReadOne
<1>4. code \in Seq(Byte) /\ offset \in Nat /\ offset <= Len(code) /\ Len(code) \in Nat
  BY <1>1 DEF Typed
<1>5. offset + next.size \in 0 .. Len(code)
  <2>1. offset + next.size <= Len(code) /\ offset + next.size \in Nat
    BY <1>2, <1>3, <1>4, DecodeStaysInside
  <2> QED
    BY <1>4, <2>1
<1> QED
  BY <1>3, <1>5, ReadKeeps

\* Every step keeps the invariant.
LEMMA CodeStep == CodeInv /\ [AsmNext]_vars => CodeInv'
<1> SUFFICES ASSUME CodeInv, [AsmNext]_vars PROVE CodeInv'
  OBVIOUS
<1>1. Typed
  BY DEF CodeInv
<1>2. CASE EndOfFile
  <2>1. /\ UNCHANGED <<target, listing, line, labels, pendingMarker, code, fixups, relocations, offset>>
        /\ phase = "parsing" /\ phase' = "fixups"
    BY <1>2 DEF EndOfFile, sourceVars, objectVars, readVars
  <2>2. Typed'
    BY <1>1, <2>1 DEF Typed
  <2> QED
    BY <2>1, <2>2, CodeKept DEF PhaseStep
<1>3. CASE WriteObject
  <2>1. /\ UNCHANGED <<target, listing, line, labels, pendingMarker, code, fixups, relocations, offset>>
        /\ phase = "fixups" /\ fixups = <<>> /\ phase' \in {"disassembling", "executing"}
    BY <1>3 DEF WriteObject, sourceVars, objectVars, readVars
  <2>2. Typed'
    BY <1>1, <2>1 DEF Typed
  <2> QED
    BY <2>1, <2>2, CodeKept DEF PhaseStep
<1>4. CASE UNCHANGED vars
  <2>1. UNCHANGED <<target, listing, line, labels, pendingMarker, code, fixups, relocations, phase, offset>>
    BY <1>4 DEF vars, sourceVars, objectVars, readVars
  <2>2. Typed'
    BY <1>1, <2>1 DEF Typed
  <2> QED
    BY <2>1, <2>2, CodeKept DEF PhaseStep
<1> QED
  BY <1>2, <1>3, <1>4, ParseKeeps, ApplyKeeps, DisassembleKeeps, FetchKeeps DEF AsmNext

-----------------------------------------------------------------------------
(* What the invariant says of the section.                                 *)

\* The invariant holds of every state: for every source file and target the listing tiles
\* the code, and every label field is still pending or has been applied (emitInstruction,
\* applyFixup).
THEOREM CodeCorrect == AsmSpec => []CodeInv
<1>1. CodeInv /\ [AsmNext]_vars => CodeInv'
  BY CodeStep
<1> QED
  BY <1>1, CodeInit, PTL DEF AsmSpec

\* A fixup is inside the section.
LEMMA FixupInside ==
  ASSUME CodeInv, NEW f, \E a \in 1 .. Len(fixups) : f = fixups[a]
  PROVE f.offset + FixupBytes(f.kind) \in 1 .. Len(code)
<1>1. Typed /\ HasFixup(f) /\ EntriesOK /\ Len(code) \in Nat
  BY DEF CodeInv, FixupsOK, Typed
<1>2. PICK e : Listed(e) /\ UsesLabel(e) /\ f = FixupFor(e)
  BY <1>1 DEF HasFixup
<1>3. EntryOK(e)
  BY <1>1, <1>2 DEF EntriesOK
<1>4. /\ f.offset = FieldAt(e) /\ FixupBytes(f.kind) = FieldWidth(e)
      /\ FieldAt(e) + FieldWidth(e) = e.end /\ FieldAt(e) \in Nat /\ FieldAt(e) < e.end
  BY <1>2, <1>3, FieldPlace
<1>5. e.end \in Nat /\ e.end <= Len(code)
  BY <1>3 DEF EntryOK
<1> QED
  BY <1>1, <1>4, <1>5

\* For every source file: the bytes are bytes, the listing tiles the code, every fixup lies
\* in it and a reader never leaves it (emitInstruction, getInstruction, decode_at).
THEOREM AssemblerTypes == AsmSpec => []AsmTypeOK
<1>1. CodeInv => AsmTypeOK
  <2> SUFFICES ASSUME CodeInv PROVE AsmTypeOK
    OBVIOUS
  <2>1. Typed /\ Tiles
    BY DEF CodeInv
  <2>2. \A k \in 1 .. Len(code) : code[k] \in 0 .. 255
    <3>1. code \in Seq(Byte)
      BY <2>1 DEF Typed
    <3>2. \A k \in 1 .. Len(code) : code[k] \in Byte
      BY <3>1
    <3> QED
      BY <3>2 DEF Byte
  <2>3. \A k \in 1 .. Len(fixups) : fixups[k].offset + FixupBytes(fixups[k].kind) \in 1 .. Len(code)
    <3>1. ASSUME NEW k \in 1 .. Len(fixups)
          PROVE fixups[k].offset + FixupBytes(fixups[k].kind) \in 1 .. Len(code)
      <4>1. PICK f : f = fixups[k]
        OBVIOUS
      <4>2. f.offset + FixupBytes(f.kind) \in 1 .. Len(code)
        BY <4>1, FixupInside
      <4> QED
        BY <4>1, <4>2
    <3> QED
      BY <3>1
  <2>4. \A k \in 1 .. Len(listing) : listing[k].at = (IF k = 1 THEN 0 ELSE listing[k - 1].end)
    BY <2>1 DEF Tiles
  <2>5. listing # <<>> => listing[Len(listing)].end = Len(code)
    BY <2>1 DEF Tiles
  <2> QED
    BY <2>1, <2>2, <2>3, <2>4, <2>5 DEF AsmTypeOK, Typed
<1> QED
  BY <1>1, CodeCorrect, PTL

\* In a written object the use of a label of another object has its relocation, and no other
\* relocation is inside the instruction.
LEMMA RelocationLeft ==
  ASSUME CodeInv, phase \in {"disassembling", "executing"}, NEW e, Listed(e), UsesLabel(e),
         ~LocalTarget(e)
  PROVE /\ Zeros(e)
        /\ {r \in relocations : r.at \in e.at .. e.end - 1} = {RelocationFor(e)}
        /\ FieldAt(e) = e.end - FieldWidth(e) /\ FieldWidth(e) \in {4, 8} /\ e.end \in Nat
<1>1. Typed /\ Tiles /\ FixupsOK /\ EntriesOK /\ EntryOK(e)
  BY DEF CodeInv, EntriesOK
<1>2. Len(fixups) = 0
  BY <1>1 DEF FixupsOK
<1>3. Applied(e)
  BY <1>1, <1>2 DEF EntryOK, Pending
<1>4. ~Resolved(FixupFor(e))
  <2>1. FixupFor(e).label = LabelOf(e)
    BY <1>1, FieldPlace
  <2>2. LabelOf(e) \notin DOMAIN labels \ Globals
    BY DEF LocalTarget
  <2> QED
    BY <2>1, <2>2 DEF Resolved
<1>5. Zeros(e) /\ RelocationFor(e) \in relocations
  BY <1>3, <1>4 DEF Applied
<1>6. /\ FieldAt(e) \in Nat /\ e.at < FieldAt(e) /\ FieldAt(e) < e.end
      /\ FieldWidth(e) \in {4, 8}
  BY <1>1, FieldPlace
<1>7. e.at \in Nat /\ e.end \in Nat
  BY <1>1 DEF EntryOK
<1>8. RelocationFor(e).at \in e.at .. e.end - 1
  <2>1. RelocationFor(e).at = FieldAt(e)
    BY DEF RelocationFor
  <2> QED
    BY <1>6, <1>7, <2>1
<1>9. ASSUME NEW r \in relocations, r.at \in e.at .. e.end - 1
      PROVE r = RelocationFor(e)
  <2>1. HasRelocation(r)
    BY <1>1 DEF FixupsOK
  <2>2. PICK d : Listed(d) /\ UsesLabel(d) /\ r = RelocationFor(d)
    BY <2>1 DEF HasRelocation
  <2>3. EntryOK(d)
    BY <1>1, <2>2 DEF EntriesOK
  <2>4. r.at = FieldAt(d)
    BY <2>2 DEF RelocationFor
  <2>5. FieldAt(d) \in Nat /\ d.at < FieldAt(d) /\ FieldAt(d) < d.end /\ d.at \in Nat /\ d.end \in Nat
    BY <2>2, <2>3, FieldPlace DEF EntryOK
  <2>6. ASSUME d # e PROVE FALSE
    <3>1. d.end <= e.at \/ e.end <= d.at
      BY <1>1, <2>2, <2>6, Apart
    <3> QED
      BY <1>7, <1>9, <2>4, <2>5, <3>1
  <2> QED
    BY <2>2, <2>6
<1>10. {r \in relocations : r.at \in e.at .. e.end - 1} = {RelocationFor(e)}
  BY <1>5, <1>8, <1>9
<1>11. FieldAt(e) = e.end - FieldWidth(e)
  BY DEF FieldAt
<1> QED
  BY <1>5, <1>6, <1>7, <1>10, <1>11

\* For every source file and target: a label the object does not define is left to one
\* relocation over a zero field with the addend its instruction needs (applyFixup,
\* getRelocType).
THEOREM RelocationsComplete == AsmSpec => []RelocationsNameTheField
<1>1. CodeInv => RelocationsNameTheField
  <2> SUFFICES ASSUME CodeInv, phase \in {"disassembling", "executing"},
                      NEW k \in 1 .. Len(listing), UsesLabel(listing[k]), ~LocalTarget(listing[k])
               PROVE LET entry == listing[k]
                         width == IF IsBranch(entry) \/ ~target.is64 THEN 4 ELSE 8
                         place == entry.end - width
                         type == IF IsBranch(entry) THEN "R_SB_PCREL32"
                                 ELSE IF target.is64 THEN "R_SB_ABS64" ELSE "R_SB_ABS32"
                     IN /\ {r \in relocations : r.at \in entry.at .. entry.end - 1}
                             = {[at |-> place, label |-> LabelOf(entry), type |-> type,
                                 addend |-> IF IsBranch(entry) THEN place - entry.end ELSE 0]}
                        /\ \A b \in place + 1 .. entry.end : code[b] = 0
    BY DEF RelocationsNameTheField
  <2>1. PICK e : e = listing[k]
    OBVIOUS
  <2>2. Listed(e) /\ UsesLabel(e) /\ ~LocalTarget(e)
    BY <2>1 DEF Listed
  <2>3. /\ Zeros(e)
        /\ {r \in relocations : r.at \in e.at .. e.end - 1} = {RelocationFor(e)}
        /\ FieldAt(e) = e.end - FieldWidth(e) /\ FieldWidth(e) \in {4, 8} /\ e.end \in Nat
    BY <2>2, RelocationLeft
  <2> DEFINE width == IF IsBranch(e) \/ ~target.is64 THEN 4 ELSE 8
             place == e.end - width
             type == IF IsBranch(e) THEN "R_SB_PCREL32"
                     ELSE IF target.is64 THEN "R_SB_ABS64" ELSE "R_SB_ABS32"
  <2>4. width = FieldWidth(e) /\ place = FieldAt(e)
    BY <2>3 DEF FieldWidth
  <2>5. (IF IsBranch(e) THEN place - e.end ELSE 0) = IF IsBranch(e) THEN -4 ELSE 0
    BY <2>3
  <2>6. [at |-> place, label |-> LabelOf(e), type |-> type,
         addend |-> IF IsBranch(e) THEN place - e.end ELSE 0] = RelocationFor(e)
    BY <2>4, <2>5 DEF RelocationFor
  <2>7. \A b \in place + 1 .. e.end : code[b] = 0
    BY <2>3, <2>4 DEF Zeros
  <2> QED
    BY <2>1, <2>3, <2>6, <2>7
<1> QED
  BY <1>1, CodeCorrect, PTL

\* A step of the backend writes the field of one instruction.
LEMMA StepPatches ==
  ASSUME CodeInv, AsmNext, phase = "fixups", NEW b \in 1 .. Len(code), code'[b] # code[b]
  PROVE \E k \in 1 .. Len(listing) :
          /\ UsesLabel(listing[k])
          /\ b \in listing[k].end - (IF IsBranch(listing[k]) THEN 3 ELSE 7) .. listing[k].end
<1>1. ApplyFixup
  <2>1. ~(ParseStatement \/ EndOfFile \/ DisassembleOne \/ FetchOne)
    BY DEF ParseStatement, EndOfFile, DisassembleOne, FetchOne
  <2>2. ~WriteObject
    BY DEF WriteObject, objectVars
  <2> QED
    BY <2>1, <2>2 DEF AsmNext
<1>2. PICK e : Listed(e) /\ EntryOK(e) /\ UsesLabel(e) /\ Head(fixups) = FixupFor(e) /\ Zeros(e)
  BY <1>1, HeadFixup DEF ApplyFixup
<1>3. Writes(e)
  BY <1>1, <1>2, ApplyWrites
<1>4. b \in FieldAt(e) + 1 .. e.end
  BY <1>3 DEF Writes
<1>5. /\ FieldWidth(e) \in {4, 8} /\ FieldAt(e) \in Nat /\ FieldAt(e) + FieldWidth(e) = e.end
      /\ e.end \in Nat
  BY <1>2, FieldPlace DEF EntryOK
<1>6. IsBranch(e) => FieldWidth(e) = 4
  BY DEF FieldWidth
<1>7. b \in e.end - (IF IsBranch(e) THEN 3 ELSE 7) .. e.end
  BY <1>4, <1>5, <1>6
<1>8. PICK k \in 1 .. Len(listing) : e = listing[k]
  BY <1>2 DEF Listed
<1> QED
  BY <1>2, <1>7, <1>8

\* For every source file: every byte a step of the backend changes belongs to the last bytes
\* of an instruction that names a label, never to an opcode or a neighbour (applyFixup).
THEOREM FieldsOnlyPatched == AsmSpec => OnlyLabelFieldsPatched
<1>1. CodeInv /\ [AsmNext]_vars =>
        [phase = "fixups" =>
           \A b \in 1 .. Len(code) :
             code'[b] # code[b] =>
               \E k \in 1 .. Len(listing) :
                 /\ UsesLabel(listing[k])
                 /\ b \in listing[k].end - (IF IsBranch(listing[k]) THEN 3 ELSE 7)
                            .. listing[k].end]_vars
  BY StepPatches
<1> QED
  BY <1>1, CodeCorrect, PTL DEF AsmSpec, OnlyLabelFieldsPatched

-----------------------------------------------------------------------------
(* Where the branches go.                                                  *)
\* A label is somewhere in the section or at its end.
LabelsInside == \A l \in DOMAIN labels : labels[l] <= Len(code)

\* Labels stay inside: the section never shrinks, and a new label is at its end.
LEMMA LabelsStay ==
  ASSUME CodeInv, CodeInv', LabelsInside, [AsmNext]_vars
  PROVE LabelsInside'
<1>1. Typed /\ Typed' /\ Len(code) \in Nat /\ Len(code') \in Nat
  BY DEF CodeInv, Typed
<1>2. ASSUME UNCHANGED labels, Len(code) <= Len(code') PROVE LabelsInside'
  BY <1>1, <1>2 DEF LabelsInside, Typed
<1>3. ASSUME UNCHANGED <<labels, code>> PROVE LabelsInside'
  BY <1>1, <1>2, <1>3
<1>4. CASE UNCHANGED vars \/ EndOfFile \/ WriteObject \/ DisassembleOne \/ FetchOne
  BY <1>3, <1>4 DEF vars, sourceVars, objectVars, EndOfFile, WriteObject, DisassembleOne,
                    FetchOne, ReadOne
<1>5. CASE ApplyFixup
  <2>1. UNCHANGED labels
    BY <1>5 DEF ApplyFixup, sourceVars
  <2>2. CASE UNCHANGED code
    BY <1>3, <2>1, <2>2
  <2>3. CASE Resolved(Head(fixups))
    <3>1. DOMAIN code' = 1 .. Len(code)
      BY <1>5, <2>3 DEF ApplyFixup
    <3>2. Len(code') = Len(code)
      BY <1>1, <3>1 DEF Typed
    <3> QED
      BY <1>1, <1>2, <2>1, <3>2
  <2> QED
    BY <1>5, <2>2, <2>3 DEF ApplyFixup
<1>6. CASE ParseStatement
  <2>1. PICK s : \/ parseCPUOrArchDirective(s)
                 \/ parseModeDirective(s)
                 \/ DefineLabel(s)
                 \/ assembleInstruction(s)
    BY <1>6 DEF ParseStatement
  <2>2. CASE parseCPUOrArchDirective(s) \/ parseModeDirective(s)
    BY <1>3, <2>2 DEF parseCPUOrArchDirective, parseModeDirective, objectVars
  <2>3. CASE DefineLabel(s)
    <3>1. /\ code' = code
          /\ labels' = [l \in DOMAIN labels \cup {s.name} |->
                          IF l = s.name THEN Len(code) ELSE labels[l]]
      BY <2>3 DEF DefineLabel, objectVars
    <3>2. ASSUME NEW l \in DOMAIN labels' PROVE labels'[l] <= Len(code)
      BY <1>1, <3>1, <3>2 DEF LabelsInside
    <3> QED
      BY <3>1, <3>2 DEF LabelsInside
  <2>4. CASE assembleInstruction(s)
    <3>1. UNCHANGED labels
      BY <2>4 DEF assembleInstruction
    <3>2. \/ UNCHANGED code
          \/ \E end : listing' = Append(listing, [statement |-> s, at |-> Len(code), end |-> end,
                                                  features |-> features])
      BY <2>4 DEF assembleInstruction, EmitInstruction
    <3>3. CASE UNCHANGED code
      BY <1>3, <3>1, <3>3
    <3>4. CASE \E end : listing' = Append(listing, [statement |-> s, at |-> Len(code), end |-> end,
                                                  features |-> features])
      <4>1. PICK end, e : /\ e = [statement |-> s, at |-> Len(code), end |-> end,
                                  features |-> features]
                          /\ listing' = Append(listing, e)
        BY <3>4
      <4>2. Listed(e)'
        <5>1. PICK S : listing \in Seq(S)
          BY DEF CodeInv, Tiles
        <5>2. Len(listing) \in Nat
          BY <5>1, LenProperties
        <5>3. Len(listing') = Len(listing) + 1 /\ listing'[Len(listing) + 1] = e
          <6>1. listing \in Seq(S \cup {e}) /\ e \in S \cup {e}
            BY <5>1
          <6> QED
            BY <4>1, <6>1, AppendProperties
        <5>4. Len(listing) + 1 \in 1 .. Len(listing')
          BY <5>2, <5>3
        <5> QED
          BY <5>3, <5>4 DEF Listed
      <4>3. EntryOK(e)'
        BY <4>2 DEF CodeInv, EntriesOK
      <4>4. e.at = Len(code) /\ e.at \in Nat /\ e.end \in Nat /\ e.at < e.end /\ e.end <= Len(code')
        BY <4>1, <4>3 DEF EntryOK
      <4>5. Len(code) <= Len(code')
        BY <1>1, <4>4
      <4> QED
        BY <1>2, <3>1, <4>5
    <3> QED
      BY <3>2, <3>3, <3>4
  <2> QED
    BY <2>1, <2>2, <2>3, <2>4
<1> QED
  BY <1>4, <1>5, <1>6 DEF AsmNext

\* Two gigabytes: the reach of the four bytes a fixup writes.
InReach == Len(code) <= 2147483648

\* What a resolved branch looks like: where its displacement is, and what its bytes are.
BranchBytes(e, i, v, mark, lead) ==
  /\ i.name = e.statement.name /\ i.marker \in 0 .. 10
  /\ FormOf(i.name) # "BranchRel32" => HoldsReg(i.ops, 1)
  /\ mark = MarkBytes(i.marker) /\ lead = LeadBytes(i)
  /\ mark \in Seq(Byte) /\ lead \in Seq(Byte)
  /\ v = labels[LabelOf(e)] - e.end /\ v \in Word32
  /\ e.at + Len(mark) + Len(lead) + 4 = e.end
  /\ Has(code, e.at, mark) /\ Has(code, e.at + Len(mark), lead)
  /\ Has(code, e.at + Len(mark) + Len(lead), LittleEndian(v, 4))

\* In a written object a branch to a local label has its displacement in its field.
LEMMA BranchWritten ==
  ASSUME CodeInv, LabelsInside, InReach,
         phase \in {"disassembling", "executing"}, NEW e, Listed(e), LocalTarget(e), IsBranch(e)
  PROVE \E i, v, mark, lead : BranchBytes(e, i, v, mark, lead)
<1>1. Typed /\ FixupsOK /\ EntryOK(e) /\ UsesLabel(e)
  BY DEF CodeInv, EntriesOK, LocalTarget
<1>2. Len(fixups) = 0
  BY <1>1 DEF FixupsOK
<1>3. Applied(e) /\ Opened(e)
  BY <1>1, <1>2 DEF EntryOK, Pending
<1>4. /\ e.at \in Nat /\ e.end \in Nat /\ e.at < FieldAt(e) /\ e.end <= Len(code)
      /\ FieldAt(e) \in Nat /\ FieldAt(e) + 4 = e.end /\ FieldWidth(e) = 4
      /\ FixupFor(e).offset = FieldAt(e) /\ FixupFor(e).label = LabelOf(e) /\ FixupFor(e).pcrel
  BY <1>1, FieldPlace DEF EntryOK, FieldWidth
<1>5. FixupFor(e).addend = -4
  BY DEF FixupFor, FieldFixup
<1>6. Resolved(FixupFor(e)) /\ LabelOf(e) \in DOMAIN labels
  BY <1>4 DEF Resolved, LocalTarget
<1>7. Patched(e)
  BY <1>3, <1>6 DEF Applied
<1>8. PICK v, at, field, end, here :
        /\ v = here - end /\ at = e.at /\ field = FieldAt(e) /\ end = e.end
        /\ here = labels[LabelOf(e)]
  OBVIOUS
<1>9. here \in Nat /\ here <= Len(code) /\ Len(code) \in Nat /\ code \in Seq(Byte)
  BY <1>1, <1>6, <1>8 DEF Typed, LabelsInside
<1>10. at \in Nat /\ end \in Nat /\ end > 0 /\ end <= Len(code) /\ field \in Nat /\ field + 4 = end
  BY <1>4, <1>8
<1>11. v \in Word32
  BY <1>8, <1>9, <1>10 DEF Word32, InReach
<1>12. FixupValue(FixupFor(e)) = v
  <2>1. FixupValue(FixupFor(e)) = here + (-4) - field
    BY <1>4, <1>5, <1>8 DEF FixupValue
  <2> QED
    BY <1>8, <1>9, <1>10, <2>1
<1>13. PICK value : value = LittleEndian(v, 4)
  OBVIOUS
<1>14. value \in Seq(Byte) /\ Len(value) = 4 /\ v \in Int
  BY <1>11, <1>13, LittleEndianBytes DEF Word32
<1>15. ValueBytes(v, 4) = value
  <2>1. ValueBytes(v, 4) = value \o <<>>
    BY <1>13 DEF ValueBytes
  <2> QED
    BY <1>14, <2>1, ConcatEmptySeq
<1>16. \A b \in field + 1 .. end : code[b] = value[b - field]
  BY <1>4, <1>7, <1>8, <1>12, <1>15 DEF Patched
<1>17. Has(code, field, value)
  <2>1. ASSUME NEW j \in 1 .. 4 PROVE At(code, field + j - 1) = value[j]
    <3>1. field + j \in field + 1 .. end /\ (field + j) - field = j
          /\ field + j - 1 < Len(code) /\ (field + j - 1) + 1 = field + j
      BY <1>9, <1>10
    <3> QED
      BY <1>16, <3>1 DEF At
  <2> QED
    BY <1>10, <1>14, <2>1 DEF Has
<1>18. PICK i : /\ i.name = e.statement.name /\ i.marker \in 0 .. 10
                /\ FormOf(i.name) # "BranchRel32" => HoldsReg(i.ops, 1)
                /\ FieldAt(e) = e.at + Len(MarkerBytes(i) \o LeadBytes(i))
                /\ \A j \in 1 .. Len(MarkerBytes(i) \o LeadBytes(i)) :
                     code[e.at + j] = (MarkerBytes(i) \o LeadBytes(i))[j]
  BY <1>3 DEF Opened
<1>19. PICK mark, lead, both : mark = MarkerBytes(i) /\ lead = LeadBytes(i) /\ both = mark \o lead
  OBVIOUS
<1>20. mark \in Seq(Byte) /\ lead \in Seq(Byte) /\ mark = MarkBytes(i.marker)
  <2>1. mark \in Seq(Byte)
    BY <1>18, <1>19, MarkerString
  <2>2. lead \in Seq(Byte)
    BY <1>1, <1>18, <1>19, LeadString DEF EntryOK
  <2>3. Marker.none = 0
    BY DEF Marker
  <2> QED
    BY <1>19, <2>1, <2>2, <2>3 DEF MarkerBytes, MarkBytes
<1>21. both \in Seq(Byte) /\ Len(both) = Len(mark) + Len(lead)
  BY <1>19, <1>20, ConcatLen
<1>22. Len(mark) \in Nat /\ Len(lead) \in Nat
  BY <1>20, LenProperties
<1>23. field = at + Len(both) /\ \A j \in 1 .. Len(both) : code[at + j] = both[j]
  BY <1>8, <1>18, <1>19
<1>24. Has(code, at, both)
  <2>1. ASSUME NEW j \in 1 .. Len(both) PROVE At(code, at + j - 1) = both[j]
    <3>1. at + j - 1 < Len(code) /\ (at + j - 1) + 1 = at + j
      BY <1>9, <1>10, <1>21, <1>22, <1>23
    <3> QED
      BY <1>23, <3>1 DEF At
  <2>2. at + Len(both) <= Len(code)
    BY <1>9, <1>10, <1>23
  <2> QED
    BY <2>1, <2>2 DEF Has
<1>25. Has(code, at, mark) /\ Has(code, at + Len(mark), lead)
  BY <1>9, <1>10, <1>19, <1>20, <1>24, HasConcat
<1>26. field = at + Len(mark) + Len(lead)
  BY <1>10, <1>21, <1>22, <1>23
<1>27. at + Len(mark) + Len(lead) + 4 = end
  BY <1>10, <1>26
<1>28. Has(code, at + Len(mark) + Len(lead), LittleEndian(v, 4))
  BY <1>13, <1>17, <1>26
<1>29. BranchBytes(e, i, v, mark, lead)
  BY <1>8, <1>11, <1>18, <1>19, <1>20, <1>25, <1>27, <1>28 DEF BranchBytes
<1> QED
  BY <1>29

\* The bytes of a written branch alone.
LEMMA BranchPiece ==
  ASSUME CodeInv, NEW e, Listed(e), NEW i, NEW v, NEW mark, NEW lead,
         BranchBytes(e, i, v, mark, lead),
         NEW bytes, PieceAt(bytes, code, e.at, e.end), NEW k, NEW l, k = Len(mark), l = Len(lead)
  PROVE /\ bytes \in Seq(Byte)
        /\ Has(bytes, 0, mark) /\ Has(bytes, k, lead) /\ Has(bytes, k + l, LittleEndian(v, 4))
<1>1. PICK value, at, end, c : value = LittleEndian(v, 4) /\ at = e.at /\ end = e.end /\ c = code
  OBVIOUS
<1>2. value \in Seq(Byte) /\ Len(value) = 4
  <2>1. v \in Int
    BY DEF BranchBytes, Word32
  <2> QED
    BY <1>1, <2>1, LittleEndianBytes
<1>3. c \in Seq(Byte) /\ PieceAt(bytes, c, at, end)
  BY <1>1 DEF CodeInv, Typed
<1>7. PICK p, q, n : p = at + k /\ q = p + l /\ n = Len(value)
  OBVIOUS
<1>4. /\ mark \in Seq(Byte) /\ lead \in Seq(Byte) /\ q + n = end
      /\ Has(c, at, mark) /\ Has(c, p, lead) /\ Has(c, q, value)
  BY <1>1, <1>2, <1>7 DEF BranchBytes
<1>5. bytes \in Seq(Byte)
  BY <1>3, PieceOf
<1>6. k \in Nat /\ l \in Nat /\ n \in Nat /\ at \in Nat /\ end \in Nat
  BY <1>2, <1>3, <1>4, <1>7, LenProperties DEF PieceAt
<1>8. p \in Nat /\ q \in Nat /\ at <= p /\ at <= q /\ at <= at
      /\ at + k <= end /\ p + l <= end /\ q + n <= end
  BY <1>4, <1>6, <1>7
<1>9. Has(bytes, at - at, mark)
  BY <1>3, <1>4, <1>6, <1>8, HasWithin
<1>10. Has(bytes, p - at, lead)
  BY <1>3, <1>4, <1>8, HasWithin
<1>11. Has(bytes, q - at, value)
  BY <1>2, <1>3, <1>4, <1>7, <1>8, HasWithin
<1>12. at - at = 0 /\ p - at = k /\ q - at = k + l
  BY <1>6, <1>7
<1> QED
  BY <1>1, <1>5, <1>9, <1>10, <1>11, <1>12

\* Both readers of a written branch take the distance of the label.
LEMMA BranchReachesLabel ==
  ASSUME CodeInv, NEW e, Listed(e), UsesLabel(e), IsBranch(e),
         NEW i, NEW v, NEW mark, NEW lead, BranchBytes(e, i, v, mark, lead),
         NEW bytes, PieceAt(bytes, code, e.at, e.end)
  PROVE /\ LastOp(GetInstruction(bytes, target.is64)) = Imm(v)
        /\ Executed(e.statement.name) => DecodeAt(code, e.at).immediate = Imm(v)
<1>1. /\ code \in Seq(Byte) /\ e.at \in Nat /\ e.statement.name \in DOMAIN Records
      /\ ClassOf(e.statement.name) \in BranchClasses \cup AddressClasses
  BY DEF CodeInv, Typed, EntriesOK, EntryOK
<1>2. PICK at, n, m, op, p, is64, k, l :
        /\ at = e.at /\ n = e.statement.name /\ m = i.marker /\ op = OpcodeOf(n)
        /\ p = at + k /\ is64 = target.is64 /\ k = Len(mark) /\ l = Len(lead)
  OBVIOUS
<1>0. /\ bytes \in Seq(Byte)
      /\ Has(bytes, 0, mark) /\ Has(bytes, k, lead) /\ Has(bytes, k + l, LittleEndian(v, 4))
  BY <1>2, BranchPiece
<1>3. /\ i.name = n /\ m \in 0 .. 10 /\ mark = MarkBytes(m) /\ lead = LeadBytes(i)
      /\ mark \in Seq(Byte) /\ lead \in Seq(Byte) /\ v \in Word32
      /\ FormOf(n) # "BranchRel32" => HoldsReg(i.ops, 1)
  BY <1>2 DEF BranchBytes
<1>4. Has(code, at, mark) /\ Has(code, p, lead) /\ Has(code, p + l, LittleEndian(v, 4))
  BY <1>2 DEF BranchBytes
<1>5. k \in Nat /\ l \in Nat /\ at \in Nat
  BY <1>1, <1>2, <1>3, LenProperties
<1>6. n \in DOMAIN Records /\ ClassOf(n) \in BranchClasses
  <2>1. PICK c : c = ClassOf(n)
    OBVIOUS
  <2>2. c \in BranchClasses \cup AddressClasses /\ Class[c][2] \in {"BranchRel32", "RegCondBranch"}
    BY <1>1, <1>2, <2>1 DEF IsBranch, FormOf
  <2> QED
    BY <1>1, <1>2, <2>1, <2>2, BranchByClass
<1>7. /\ GroupOf(n) = 0
      /\ ClassOf(n) = "RegCondBranch" =>
           BranchName(n, op, "RegCondBranch") /\ FormOf(n) = "RegCondBranch" /\ op = 109
      /\ ClassOf(n) # "RegCondBranch" =>
           /\ BranchName(n, op, "Branch") /\ FormOf(n) = "BranchRel32"
           /\ n # "XBEGIN" => op \in DirectOps
  BY <1>2, <1>6, BranchRows
<1>8. OpcodeBytes(i) = <<op>>
  BY <1>2, <1>3, <1>7 DEF OpcodeBytes
<1>9. PICK r, d : r = GetInstruction(bytes, is64) /\ d = DecodeAt(code, at)
  OBVIOUS
<1>10. Marked(bytes, 0, m, k) /\ Marked(code, at, m, p)
  BY <1>0, <1>2, <1>3, <1>4, <1>5 DEF Marked
<1>11. CASE ClassOf(n) = "RegCondBranch"
  <2>1. PICK rm : rm = Num(i, 1)
    OBVIOUS
  <2>2. rm \in 0 .. 31
    BY <1>3, <1>7, <1>11, <2>1 DEF HoldsReg, Num
  <2>3. lead = RegForm(0, <<op>>, 0, rm, <<>>)
    BY <1>3, <1>7, <1>8, <1>11, <2>1 DEF LeadBytes
  <2>4. Has(bytes, k + Len(lead), LittleEndian(v, 4)) /\ Has(code, p + Len(lead), LittleEndian(v, 4))
    BY <1>0, <1>2, <1>4
  <2>5. r.ops = <<GPR(rm), Imm(v)>>
    <3>1. BranchName(n, op, "RegCondBranch") /\ v \in Word32 /\ Has(bytes, k, lead)
          /\ Marked(bytes, 0, m, k) /\ Has(bytes, k + Len(lead), LittleEndian(v, 4))
      BY <1>0, <1>3, <1>7, <1>10, <1>11, <2>4
    <3> QED
      BY <1>0, <1>9, <2>2, <2>3, <3>1, RegisterBranchRead, ZenonT(60)
  <2>6. d.immediate = Imm(v)
    <3>1. lead = RegForm(0, << 109 >>, 0, rm, <<>>)
      BY <1>7, <1>11, <2>3
    <3>2. v \in Word32 /\ Has(code, p, lead) /\ Marked(code, at, m, p) /\ code \in Seq(Byte)
          /\ at \in Nat /\ Has(code, p + Len(lead), LittleEndian(v, 4))
      BY <1>1, <1>3, <1>4, <1>5, <1>10, <2>4
    <3>3. DecodeAt(code, at).immediate = Imm(v)
      BY <2>2, <3>1, <3>2, MachineRegisterBranch, ZenonT(60)
    <3> QED
      BY <1>9, <3>3
  <2> QED
    BY <1>2, <1>9, <2>5, <2>6 DEF LastOp
<1>12. CASE ClassOf(n) # "RegCondBranch"
  <2>1. lead = <<op>> /\ l = 1
    <3>1. lead = <<op>>
      BY <1>3, <1>7, <1>8, <1>12 DEF LeadBytes
    <3> QED
      BY <1>2, <3>1
  <2>2. Has(bytes, k, <<op>>) /\ Has(bytes, k + 1, LittleEndian(v, 4))
        /\ Has(code, p, <<op>>) /\ Has(code, p + 1, LittleEndian(v, 4))
    BY <1>0, <1>4, <2>1
  <2>3. r.ops = <<Imm(v)>>
    BY <1>0, <1>3, <1>7, <1>9, <1>10, <1>12, <2>2, ShortBranchRead
  <2>4. n # "XBEGIN" => d.immediate = Imm(v)
    <3>1. op \in Byte
      BY <1>7, <1>12 DEF BranchName
    <3> QED
      BY <1>1, <1>3, <1>5, <1>7, <1>9, <1>10, <1>12, <2>2, <3>1, MachineShortBranch
  <2>5. Executed(n) => n # "XBEGIN"
    BY DEF Executed, NotExecuted
  <2> QED
    BY <1>2, <1>9, <2>3, <2>4, <2>5 DEF LastOp
<1> QED
  BY <1>11, <1>12

\* For every source file whose section is at most 2^31 bytes: every branch to a local label has the distance from its end to the label,
\* whichever reader takes it (applyFixup, getInstruction, decode_at).
THEOREM BranchesReach == AsmSpec => [](InReach => BranchesLand)
<1>1. AsmInit => LabelsInside
  BY DEF AsmInit, LabelsInside
<1>2. CodeInv /\ CodeInv' /\ LabelsInside /\ [AsmNext]_vars => LabelsInside'
  BY LabelsStay
<1>3. CodeInv /\ LabelsInside => (InReach => BranchesLand)
  <2> SUFFICES ASSUME CodeInv, LabelsInside, InReach,
                      phase \in {"disassembling", "executing"}, NEW k \in 1 .. Len(listing),
                      NEW e, e = listing[k], NEW bytes, bytes = SubSeq(code, e.at + 1, e.end),
                      LocalTarget(e), IsBranch(e)
               PROVE /\ LastOp(GetInstruction(bytes, target.is64)) = Imm(labels[LabelOf(e)] - e.end)
                     /\ Executed(e.statement.name) =>
                          DecodeAt(code, e.at).immediate = Imm(labels[LabelOf(e)] - e.end)
    BY DEF BranchesLand
  <2>1. Listed(e) /\ UsesLabel(e)
    BY DEF Listed, LocalTarget
  <2>2. PICK i, v, mark, lead : BranchBytes(e, i, v, mark, lead)
    BY <2>1, BranchWritten
  <2>3. v = labels[LabelOf(e)] - e.end /\ v \in Word32
    BY <2>2 DEF BranchBytes
  <2>4. PieceAt(bytes, code, e.at, e.end)
    BY <2>1 DEF PieceAt, CodeInv, EntriesOK, EntryOK
  <2>5. PICK dist : dist = Imm(v)
    OBVIOUS
  <2>6. LastOp(GetInstruction(bytes, target.is64)) = dist
        /\ (Executed(e.statement.name) => DecodeAt(code, e.at).immediate = dist)
    BY <2>1, <2>2, <2>4, <2>5, BranchReachesLabel
  <2> QED
    BY <2>3, <2>5, <2>6
<1> QED
  BY <1>1, <1>2, <1>3, CodeCorrect, PTL DEF AsmSpec

-----------------------------------------------------------------------------
(* The classes with an address, by the order of their operands.            *)
\* An instruction of an address alone comes back.
LEMMA ReadsAddressOnly ==
  ASSUME NEW bytes, NEW i, NEW source, NEW is64, NEW body, NEW at, NEW end, NEW r,
         Emits(bytes, i, source, is64, body, at, end, r),
         ClassOf(i.name) \in {"MemoryOnly"}
  PROVE SameMemory(r, i, 1, end, is64)
<1>1. PICK n, c, kinds : n = i.name /\ c = ClassOf(i.name) /\ kinds = OperandKinds[c]
  OBVIOUS
<1>2. /\ n \in DOMAIN Records /\ Filled(i, source) /\ is64 \in BOOLEAN /\ body = EmitBody(i, is64)
      /\ body.ok /\ bytes \in Seq(Byte) /\ Starts(bytes, i, is64, body.bytes, at, end, r)
  BY <1>1 DEF Emits, Starts
<1>3. c \in {"MemoryOnly"}
  BY <1>1
<1>4. kinds = <<"m">>
  BY <1>1, <1>3, SMT DEF OperandKinds
<1>5. c \notin Tied /\ c # "CopyVV" /\ c \notin VariantClasses
  BY <1>3, SMT DEF Tied, VariantClasses
<1>6. Class[c][1] = 0 /\ Class[c][2] \in {"LoadQ"}
  BY <1>3, SMT DEF Class
<1>7. GroupOf(n) = 0 /\ FormOf(n) \in {"LoadQ"}
  BY <1>1, <1>6 DEF GroupOf, FormOf
<1>8. FormFor(n) \in {"MemoryOnly"}
  <2>1. DecodeForm[c] \in {"MemoryOnly"}
    BY <1>3, SMT DEF DecodeForm
  <2> QED
    BY <1>1, <1>2, <1>5, <1>6, <2>1, FormForClass
<1>9. Len(i.ops) = 4
      /\ HoldsKind("m", i.ops, 1)
  <2>1. Fills(i.ops, source, kinds, 0)
    BY <1>1, <1>2, <1>5 DEF Filled
  <2> QED
    BY <1>4, <2>1 DEF Fills, Place, Size
<1>10. PICK a : a = 0
  OBVIOUS
<1>11. a \in 0 .. 31
  BY <1>10
<1>12. body = MemForm(0, OpcodeBytes(i), a, Mem(i, 1), <<>>)
  <2>1. body = EmitBase(i, is64)
    BY <1>1, <1>2, <1>7 DEF EmitBody
  <2>2. body = EmitMemory(i)
    BY <1>1, <1>2, <1>3, <1>7, <2>1, NamedClasses1, NamedClasses2 DEF EmitBase
  <2> QED
    BY <1>1, <1>2, <1>3, <1>7, <1>10, <2>2, NamedClasses1, NamedClasses2 DEF EmitMemory, Num
<1>13. MemEmits(bytes, i, is64, body, at, end, r, 1)
  <2>1. FormFor(n) \in MemoryForms
    BY <1>8 DEF MemoryForms
  <2> QED
    BY <1>1, <1>2, <1>9, <2>1 DEF MemEmits
<1>14. PICK h, more : MemoryRead(h, i, a, 1, FALSE, more, end, r)
  <2>1. FormFor(i.name) \notin ExtraByteForms
    BY <1>1, <1>8 DEF ExtraByteForms
  <2> QED
    BY <1>1, <1>3, <1>5, <1>8, <1>11, <1>12, <1>13, <2>1, PlainMemoryRead, Zenon
<1>15. /\ h.ok = TRUE /\ h.form = FormFor(n) /\ h.reg = a /\ (h.vector <=> FALSE)
       /\ GPR(h.rm) = i.ops[1] /\ GPR(h.index) = i.ops[2] /\ r = ReadMemory(h)
  BY <1>1, <1>14 DEF MemoryRead
<1>16. r = ReadAddressOnly(h)
  BY <1>8, <1>15 DEF ReadMemory
<1>17. PICK b, x, f, d : AddressOf(h) = <<b, x, f, d>> /\ b = GPR(h.rm) /\ x = GPR(h.index)
                         /\ f = Imm(h.scale) /\ d = Imm(h.disp)
  BY DEF AddressOf
<1>18. PICK ops : ops = <<b, x, f, d>>
  BY Zenon
<1>19. r = Success(h, ops, h.at)
  <2>1. PICK reg : reg = RegisterOf(h)
    OBVIOUS
  <2>3. r = Success(h, AddressOf(h), h.at)
    BY <1>8, <1>10, <1>15, <1>16 DEF ReadAddressOnly
  <2>4. AddressOf(h) = ops
    BY <1>15, <1>17, <1>18
  <2> QED
    BY <2>3, <2>4
<1>20. MemoryOps(h, i, 1, ops)
  <2>1. Len(ops) = 4 /\ ops[1] = b /\ ops[2] = x /\ ops[3] = f /\ ops[4] = d
    BY <1>18
  <2>3. \A k \in 1 .. 4 : k \notin {1, 1 + 1, 1 + 2, 1 + 3} => FALSE
    OBVIOUS
  <2>4. \A k \in 1 .. Len(i.ops) : k \notin {1, 1 + 1, 1 + 2, 1 + 3} => ops[k] = i.ops[k]
    BY <1>9, <2>3
  <2>5. /\ ops[1] = GPR(h.rm) /\ ops[1 + 1] = GPR(h.index) /\ ops[1 + 2] = Imm(h.scale)
        /\ ops[1 + 3] = Imm(h.disp)
    BY <1>17, <2>1
  <2> QED
    BY <1>9, <2>1, <2>4, <2>5 DEF MemoryOps
<1> QED
  BY <1>14, <1>19, <1>20, SuccessMemory, Zenon

\* An atomic operation on memory comes back.
LEMMA ReadsAtomic ==
  ASSUME NEW bytes, NEW i, NEW source, NEW is64, NEW body, NEW at, NEW end, NEW r,
         Emits(bytes, i, source, is64, body, at, end, r),
         ClassOf(i.name) \in {"AtomicMem", "AtomicExchange"}
  PROVE SameMemory(r, i, 3, end, is64)
<1>1. PICK n, c, kinds : n = i.name /\ c = ClassOf(i.name) /\ kinds = OperandKinds[c]
  OBVIOUS
<1>2. /\ n \in DOMAIN Records /\ Filled(i, source) /\ is64 \in BOOLEAN /\ body = EmitBody(i, is64)
      /\ body.ok /\ bytes \in Seq(Byte) /\ Starts(bytes, i, is64, body.bytes, at, end, r)
  BY <1>1 DEF Emits, Starts
<1>3. c \in {"AtomicMem", "AtomicExchange"}
  BY <1>1
<1>4. kinds = <<"r", "m">>
  BY <1>1, <1>3, SMT DEF OperandKinds
<1>5. c \in Tied /\ c # "CopyVV" /\ c \notin VariantClasses
  BY <1>3, SMT DEF Tied, VariantClasses
<1>6. Class[c][1] = 0 /\ Class[c][2] \in {"LoadQ"}
  BY <1>3, SMT DEF Class
<1>7. GroupOf(n) = 0 /\ FormOf(n) \in {"LoadQ"}
  BY <1>1, <1>6 DEF GroupOf, FormOf
<1>8. FormFor(n) \in {"AtomicMem"}
  <2>1. DecodeForm[c] \in {"AtomicMem"}
    BY <1>3, SMT DEF DecodeForm
  <2> QED
    BY <1>1, <1>2, <1>5, <1>6, <2>1, FormForClass
<1>9. Len(i.ops) = 6 /\ i.ops[1] = i.ops[2]
      /\ HoldsKind("r", i.ops, 2)
      /\ HoldsKind("m", i.ops, 3)
  <2>1. Fills(i.ops, source, kinds, 1)
    BY <1>1, <1>2, <1>5 DEF Filled
  <2> QED
    BY <1>4, <2>1 DEF Fills, Place, Size
<1>10. PICK a : a = i.ops[1][2]
  OBVIOUS
<1>11. /\ i.ops[1] = GPR(a) /\ a \in 0 .. 31
  BY <1>9, <1>10, RegisterKind, VectorKind
<1>12. body = MemForm(0, OpcodeBytes(i), a, Mem(i, 3), <<>>)
  <2>1. body = EmitBase(i, is64)
    BY <1>1, <1>2, <1>7 DEF EmitBody
  <2>2. body = EmitMemory(i)
    BY <1>1, <1>2, <1>3, <1>7, <2>1, NamedClasses1, NamedClasses2 DEF EmitBase
  <2> QED
    BY <1>1, <1>2, <1>3, <1>7, <1>10, <2>2, NamedClasses1, NamedClasses2 DEF EmitMemory, Num
<1>13. MemEmits(bytes, i, is64, body, at, end, r, 3)
  <2>1. FormFor(n) \in MemoryForms
    BY <1>8 DEF MemoryForms
  <2> QED
    BY <1>1, <1>2, <1>9, <2>1 DEF MemEmits
<1>14. PICK h, more : MemoryRead(h, i, a, 3, FALSE, more, end, r)
  <2>1. FormFor(i.name) \notin ExtraByteForms
    BY <1>1, <1>8 DEF ExtraByteForms
  <2> QED
    BY <1>1, <1>3, <1>5, <1>8, <1>11, <1>12, <1>13, <2>1, PlainMemoryRead, Zenon
<1>15. /\ h.ok = TRUE /\ h.form = FormFor(n) /\ h.reg = a /\ (h.vector <=> FALSE)
       /\ GPR(h.rm) = i.ops[3] /\ GPR(h.index) = i.ops[4] /\ r = ReadMemory(h)
  BY <1>1, <1>14 DEF MemoryRead
<1>16. r = ReadAtomic(h)
  BY <1>8, <1>15 DEF ReadMemory
<1>17. PICK b, x, f, d : AddressOf(h) = <<b, x, f, d>> /\ b = GPR(h.rm) /\ x = GPR(h.index)
                         /\ f = Imm(h.scale) /\ d = Imm(h.disp)
  BY DEF AddressOf
<1>18. PICK ops : ops = <<GPR(a), GPR(a), b, x, f, d>>
  BY Zenon
<1>19. r = Success(h, ops, h.at)
  <2>1. PICK reg : reg = RegisterOf(h)
    OBVIOUS
  <2>3. r = Success(h, (<<GPR(a)>> \o <<GPR(a)>>) \o AddressOf(h), h.at)
    BY <1>8, <1>10, <1>15, <1>16 DEF ReadAtomic
  <2>4. (<<GPR(a)>> \o <<GPR(a)>>) \o AddressOf(h) = ops
    <3>1. PICK ga : ga = GPR(a)
      OBVIOUS
    <3>2. <<ga>> \o <<ga>> = <<ga, ga>>
      BY ShortLists
    <3>3. <<ga, ga>> \o AddressOf(h) = <<ga, ga, b, x, f, d>>
      BY <1>17, TwoThenAddress
    <3> QED
      BY <1>18, <3>1, <3>2, <3>3, Zenon
  <2> QED
    BY <2>3, <2>4, Zenon
<1>20. MemoryOps(h, i, 3, ops)
  <2>1. Len(ops) = 6 /\ ops[1] = GPR(a) /\ ops[2] = GPR(a) /\ ops[3] = b /\ ops[4] = x /\ ops[5] = f /\ ops[6] = d
    BY <1>18
  <2>2. ops[1] = i.ops[1] /\ ops[2] = i.ops[2]
    BY <1>9, <1>11, <2>1
  <2>3. \A k \in 1 .. 6 : k \notin {3, 3 + 1, 3 + 2, 3 + 3} => k = 1 \/ k = 2
    OBVIOUS
  <2>4. \A k \in 1 .. Len(i.ops) : k \notin {3, 3 + 1, 3 + 2, 3 + 3} => ops[k] = i.ops[k]
    BY <1>9, <2>2, <2>3
  <2>5. /\ ops[3] = GPR(h.rm) /\ ops[3 + 1] = GPR(h.index) /\ ops[3 + 2] = Imm(h.scale)
        /\ ops[3 + 3] = Imm(h.disp)
    BY <1>17, <2>1
  <2> QED
    BY <1>9, <2>1, <2>4, <2>5 DEF MemoryOps
<1> QED
  BY <1>14, <1>19, <1>20, SuccessMemory, Zenon

\* A load that locks comes back.
LEMMA ReadsAtomicLoad ==
  ASSUME NEW bytes, NEW i, NEW source, NEW is64, NEW body, NEW at, NEW end, NEW r,
         Emits(bytes, i, source, is64, body, at, end, r),
         ClassOf(i.name) \in {"AtomicLoad"}
  PROVE SameMemory(r, i, 2, end, is64)
<1>1. PICK n, c, kinds : n = i.name /\ c = ClassOf(i.name) /\ kinds = OperandKinds[c]
  OBVIOUS
<1>2. /\ n \in DOMAIN Records /\ Filled(i, source) /\ is64 \in BOOLEAN /\ body = EmitBody(i, is64)
      /\ body.ok /\ bytes \in Seq(Byte) /\ Starts(bytes, i, is64, body.bytes, at, end, r)
  BY <1>1 DEF Emits, Starts
<1>3. c \in {"AtomicLoad"}
  BY <1>1
<1>4. kinds = <<"r", "m">>
  BY <1>1, <1>3, SMT DEF OperandKinds
<1>5. c \notin Tied /\ c # "CopyVV" /\ c \notin VariantClasses
  BY <1>3, SMT DEF Tied, VariantClasses
<1>6. Class[c][1] = 0 /\ Class[c][2] \in {"LoadQ"}
  BY <1>3, SMT DEF Class
<1>7. GroupOf(n) = 0 /\ FormOf(n) \in {"LoadQ"}
  BY <1>1, <1>6 DEF GroupOf, FormOf
<1>8. FormFor(n) \in {"AtomicLoad"}
  <2>1. DecodeForm[c] \in {"AtomicLoad"}
    BY <1>3, SMT DEF DecodeForm
  <2> QED
    BY <1>1, <1>2, <1>5, <1>6, <2>1, FormForClass
<1>9. Len(i.ops) = 5
      /\ HoldsKind("r", i.ops, 1)
      /\ HoldsKind("m", i.ops, 2)
  <2>1. Fills(i.ops, source, kinds, 0)
    BY <1>1, <1>2, <1>5 DEF Filled
  <2> QED
    BY <1>4, <2>1 DEF Fills, Place, Size
<1>10. PICK a : a = i.ops[1][2]
  OBVIOUS
<1>11. /\ i.ops[1] = GPR(a) /\ a \in 0 .. 31
  BY <1>9, <1>10, RegisterKind, VectorKind
<1>12. body = MemForm(0, OpcodeBytes(i), a, Mem(i, 2), <<>>)
  <2>1. body = EmitBase(i, is64)
    BY <1>1, <1>2, <1>7 DEF EmitBody
  <2>2. body = EmitMemory(i)
    BY <1>1, <1>2, <1>3, <1>7, <2>1, NamedClasses1, NamedClasses2 DEF EmitBase
  <2> QED
    BY <1>1, <1>2, <1>3, <1>7, <1>10, <2>2, NamedClasses1, NamedClasses2 DEF EmitMemory, Num
<1>13. MemEmits(bytes, i, is64, body, at, end, r, 2)
  <2>1. FormFor(n) \in MemoryForms
    BY <1>8 DEF MemoryForms
  <2> QED
    BY <1>1, <1>2, <1>9, <2>1 DEF MemEmits
<1>14. PICK h, more : MemoryRead(h, i, a, 2, FALSE, more, end, r)
  <2>1. FormFor(i.name) \notin ExtraByteForms
    BY <1>1, <1>8 DEF ExtraByteForms
  <2> QED
    BY <1>1, <1>3, <1>5, <1>8, <1>11, <1>12, <1>13, <2>1, PlainMemoryRead, Zenon
<1>15. /\ h.ok = TRUE /\ h.form = FormFor(n) /\ h.reg = a /\ (h.vector <=> FALSE)
       /\ GPR(h.rm) = i.ops[2] /\ GPR(h.index) = i.ops[3] /\ r = ReadMemory(h)
  BY <1>1, <1>14 DEF MemoryRead
<1>16. r = ReadAtomic(h)
  BY <1>8, <1>15 DEF ReadMemory
<1>17. PICK b, x, f, d : AddressOf(h) = <<b, x, f, d>> /\ b = GPR(h.rm) /\ x = GPR(h.index)
                         /\ f = Imm(h.scale) /\ d = Imm(h.disp)
  BY DEF AddressOf
<1>18. PICK ops : ops = <<GPR(a), b, x, f, d>>
  BY Zenon
<1>19. r = Success(h, ops, h.at)
  <2>1. PICK reg : reg = RegisterOf(h)
    OBVIOUS
  <2>3. r = Success(h, (<<>> \o <<GPR(a)>>) \o AddressOf(h), h.at)
    BY <1>8, <1>10, <1>15, <1>16 DEF ReadAtomic
  <2>4. (<<>> \o <<GPR(a)>>) \o AddressOf(h) = ops
    BY <1>15, <1>17, <1>18, OneThenAddress, ShortLists
  <2> QED
    BY <2>3, <2>4, Zenon
<1>20. MemoryOps(h, i, 2, ops)
  <2>1. Len(ops) = 5 /\ ops[1] = GPR(a) /\ ops[2] = b /\ ops[3] = x /\ ops[4] = f /\ ops[5] = d
    BY <1>18
  <2>2. ops[1] = i.ops[1]
    BY <1>9, <1>11, <2>1
  <2>3. \A k \in 1 .. 5 : k \notin {2, 2 + 1, 2 + 2, 2 + 3} => k = 1
    OBVIOUS
  <2>4. \A k \in 1 .. Len(i.ops) : k \notin {2, 2 + 1, 2 + 2, 2 + 3} => ops[k] = i.ops[k]
    BY <1>9, <2>2, <2>3
  <2>5. /\ ops[2] = GPR(h.rm) /\ ops[2 + 1] = GPR(h.index) /\ ops[2 + 2] = Imm(h.scale)
        /\ ops[2 + 3] = Imm(h.disp)
    BY <1>17, <2>1
  <2> QED
    BY <1>9, <2>1, <2>4, <2>5 DEF MemoryOps
<1> QED
  BY <1>14, <1>19, <1>20, SuccessMemory, Zenon

\* A compare and exchange comes back.
LEMMA ReadsExchange ==
  ASSUME NEW bytes, NEW i, NEW source, NEW is64, NEW body, NEW at, NEW end, NEW r,
         Emits(bytes, i, source, is64, body, at, end, r),
         ClassOf(i.name) \in {"AtomicCAS"}
  PROVE SameMemory(r, i, 4, end, is64)
<1>1. PICK n, c, kinds : n = i.name /\ c = ClassOf(i.name) /\ kinds = OperandKinds[c]
  OBVIOUS
<1>2. /\ n \in DOMAIN Records /\ Filled(i, source) /\ is64 \in BOOLEAN /\ body = EmitBody(i, is64)
      /\ body.ok /\ bytes \in Seq(Byte) /\ Starts(bytes, i, is64, body.bytes, at, end, r)
  BY <1>1 DEF Emits, Starts
<1>3. c \in {"AtomicCAS"}
  BY <1>1
<1>4. kinds = <<"r", "r", "m">>
  BY <1>1, <1>3, SMT DEF OperandKinds
<1>5. c \in Tied /\ c # "CopyVV" /\ c \notin VariantClasses
  BY <1>3, SMT DEF Tied, VariantClasses
<1>6. Class[c][1] = 0 /\ Class[c][2] \in {"LoadQ"}
  BY <1>3, SMT DEF Class
<1>7. GroupOf(n) = 0 /\ FormOf(n) \in {"LoadQ"}
  BY <1>1, <1>6 DEF GroupOf, FormOf
<1>8. FormFor(n) \in {"AtomicCAS"}
  <2>1. DecodeForm[c] \in {"AtomicCAS"}
    BY <1>3, SMT DEF DecodeForm
  <2> QED
    BY <1>1, <1>2, <1>5, <1>6, <2>1, FormForClass
<1>9. Len(i.ops) = 7 /\ i.ops[1] = i.ops[2]
      /\ HoldsKind("r", i.ops, 2)
      /\ HoldsKind("r", i.ops, 3)
      /\ HoldsKind("m", i.ops, 4)
  <2>1. Fills(i.ops, source, kinds, 1)
    BY <1>1, <1>2, <1>5 DEF Filled
  <2> QED
    BY <1>4, <2>1 DEF Fills, Place, Size
<1>10. PICK a, v : a = i.ops[1][2] /\ v = i.ops[3][2]
  BY Zenon
<1>11. /\ i.ops[1] = GPR(a) /\ a \in 0 .. 31
       /\ i.ops[3] = GPR(v) /\ v \in 0 .. 31
  BY <1>9, <1>10, RegisterKind, VectorKind
<1>12. body = MemForm(0, OpcodeBytes(i), a, Mem(i, 4), <<v>>)
  <2>1. body = EmitBase(i, is64)
    BY <1>1, <1>2, <1>7 DEF EmitBody
  <2>2. body = EmitMemory(i)
    BY <1>1, <1>2, <1>3, <1>7, <2>1, NamedClasses1, NamedClasses2 DEF EmitBase
  <2> QED
    BY <1>1, <1>2, <1>3, <1>7, <1>10, <2>2, NamedClasses1, NamedClasses2 DEF EmitMemory, Num
<1>13. MemEmits(bytes, i, is64, body, at, end, r, 4)
  <2>1. FormFor(n) \in MemoryForms
    BY <1>8 DEF MemoryForms
  <2> QED
    BY <1>1, <1>2, <1>9, <2>1 DEF MemEmits
<1>14. PICK h : MemoryRead(h, i, a, 4, FALSE, v, end, r)
  <2>1. FormFor(i.name) \in ExtraByteForms
    BY <1>1, <1>8 DEF ExtraByteForms
  <2> QED
    BY <1>1, <1>3, <1>5, <1>8, <1>11, <1>12, <1>13, <2>1, PlainMemoryByte, Zenon
<1>15. /\ h.ok = TRUE /\ h.form = FormFor(n) /\ h.reg = a /\ (h.vector <=> FALSE) /\ h.extra = v
       /\ GPR(h.rm) = i.ops[4] /\ GPR(h.index) = i.ops[5] /\ r = ReadMemory(h)
  BY <1>1, <1>14 DEF MemoryRead
<1>16. r = ReadAtomicCAS(h)
  BY <1>8, <1>15 DEF ReadMemory
<1>17. PICK b, x, f, d : AddressOf(h) = <<b, x, f, d>> /\ b = GPR(h.rm) /\ x = GPR(h.index)
                         /\ f = Imm(h.scale) /\ d = Imm(h.disp)
  BY DEF AddressOf
<1>18. PICK ops : ops = <<GPR(a), GPR(a), GPR(v), b, x, f, d>>
  BY Zenon
<1>19. r = Success(h, ops, h.at)
  <2>1. PICK reg : reg = RegisterOf(h)
    OBVIOUS
  <2>3. r = Success(h, <<GPR(a), GPR(a), GPR(v)>> \o AddressOf(h), h.at)
    BY <1>8, <1>10, <1>15, <1>16 DEF ReadAtomicCAS
  <2>4. <<GPR(a), GPR(a), GPR(v)>> \o AddressOf(h) = ops
    BY <1>15, <1>17, <1>18, ThreeThenAddress
  <2> QED
    BY <2>3, <2>4, Zenon
<1>20. MemoryOps(h, i, 4, ops)
  <2>1. Len(ops) = 7 /\ ops[1] = GPR(a) /\ ops[2] = GPR(a) /\ ops[3] = GPR(v) /\ ops[4] = b /\ ops[5] = x /\ ops[6] = f /\ ops[7] = d
    BY <1>18
  <2>2. ops[1] = i.ops[1] /\ ops[2] = i.ops[2] /\ ops[3] = i.ops[3]
    BY <1>9, <1>11, <2>1
  <2>3. \A k \in 1 .. 7 : k \notin {4, 4 + 1, 4 + 2, 4 + 3} => k = 1 \/ k = 2 \/ k = 3
    OBVIOUS
  <2>4. \A k \in 1 .. Len(i.ops) : k \notin {4, 4 + 1, 4 + 2, 4 + 3} => ops[k] = i.ops[k]
    BY <1>9, <2>2, <2>3
  <2>5. /\ ops[4] = GPR(h.rm) /\ ops[4 + 1] = GPR(h.index) /\ ops[4 + 2] = Imm(h.scale)
        /\ ops[4 + 3] = Imm(h.disp)
    BY <1>17, <2>1
  <2> QED
    BY <1>9, <2>1, <2>4, <2>5 DEF MemoryOps
<1> QED
  BY <1>14, <1>19, <1>20, SuccessMemory, Zenon

\* A gather comes back with its mask.
LEMMA ReadsGather ==
  ASSUME NEW bytes, NEW i, NEW source, NEW is64, NEW body, NEW at, NEW end, NEW r,
         Emits(bytes, i, source, is64, body, at, end, r),
         ClassOf(i.name) \in {"AVXGather"}
  PROVE SameMemory(r, i, 2, end, is64)
<1>1. PICK n, c, kinds : n = i.name /\ c = ClassOf(i.name) /\ kinds = OperandKinds[c]
  OBVIOUS
<1>2. /\ n \in DOMAIN Records /\ Filled(i, source) /\ is64 \in BOOLEAN /\ body = EmitBody(i, is64)
      /\ body.ok /\ bytes \in Seq(Byte) /\ Starts(bytes, i, is64, body.bytes, at, end, r)
  BY <1>1 DEF Emits, Starts
<1>3. c \in {"AVXGather"}
  BY <1>1
<1>4. kinds = <<"v", "m", "i">>
  BY <1>1, <1>3, SMT DEF OperandKinds
<1>5. c \notin Tied /\ c # "CopyVV" /\ c \notin VariantClasses
  BY <1>3, SMT DEF Tied, VariantClasses
<1>6. Class[c][1] = 1 /\ Class[c][2] \in {"VectorLoad"}
  BY <1>3, SMT DEF Class
<1>7. GroupOf(n) = 1 /\ FormOf(n) \in {"VectorLoad"}
  BY <1>1, <1>6 DEF GroupOf, FormOf
<1>8. FormFor(n) \in {"AVXGather"}
  <2>1. AVXDecodeForm[c] \in {"AVXGather"}
    BY <1>3, SMT DEF AVXDecodeForm
  <2>2. FormTable[1] = AVXDecodeForm
    BY DEF FormTable
  <2> QED
    BY <1>1, <1>2, <1>5, <1>6, <2>1, <2>2, FormForClass
<1>9. Len(i.ops) = 6
      /\ HoldsKind("v", i.ops, 1)
      /\ HoldsKind("m", i.ops, 2)
      /\ HoldsKind("i", i.ops, 6)
  <2>1. Fills(i.ops, source, kinds, 0)
    BY <1>1, <1>2, <1>5 DEF Filled
  <2> QED
    BY <1>4, <2>1 DEF Fills, Place, Size
<1>10. PICK a, v : a = i.ops[1][2] /\ v = i.ops[6][2]
  BY Zenon
<1>11. /\ i.ops[1] = Vec(a) /\ a \in 0 .. 31
  BY <1>9, <1>10, RegisterKind, VectorKind
<1>12. body = MemForm(64, OpcodeBytes(i), a, Mem(i, 2), <<24, v>>) /\ UInt(i.ops[6], 8)
  <2>1. body = EmitAVX(i)
    BY <1>1, <1>2, <1>7 DEF EmitBody
  <2>2. body = EmitAVXMemory(i)
    BY <1>1, <1>2, <1>3, <1>7, <2>1 DEF EmitAVX
  <2> QED
    BY <1>1, <1>2, <1>3, <1>7, <1>10, <2>2 DEF EmitAVXMemory, Num, Rejected
<1>120. i.ops[6] = Imm(v) /\ v \in Byte
  BY <1>9, <1>10, <1>12, ByteImmediate
<1>13. MemEmits(bytes, i, is64, body, at, end, r, 2)
  <2>1. FormFor(n) \in MemoryForms
    BY <1>8 DEF MemoryForms
  <2> QED
    BY <1>1, <1>2, <1>9, <2>1 DEF MemEmits
<1>14. PICK h : MemoryRead(h, i, a, 2, TRUE, v, end, r)
  <2>1. FormFor(i.name) \in ExtraByteForms
    BY <1>1, <1>8 DEF ExtraByteForms
  <2> QED
    BY <1>1, <1>3, <1>5, <1>8, <1>11, <1>12, <1>13, <2>1, <1>120, VectorMemoryByte, Zenon
<1>15. /\ h.ok = TRUE /\ h.form = FormFor(n) /\ h.reg = a /\ (h.vector <=> TRUE) /\ h.extra = v
       /\ GPR(h.rm) = i.ops[2] /\ GPR(h.index) = i.ops[3] /\ r = ReadMemory(h)
  BY <1>1, <1>14 DEF MemoryRead
<1>16. r = ReadGather(h)
  BY <1>8, <1>15 DEF ReadMemory
<1>17. PICK b, x, f, d : AddressOf(h) = <<b, x, f, d>> /\ b = GPR(h.rm) /\ x = GPR(h.index)
                         /\ f = Imm(h.scale) /\ d = Imm(h.disp)
  BY DEF AddressOf
<1>18. PICK ops : ops = <<Vec(a), b, x, f, d, Imm(v)>>
  BY Zenon
<1>19. r = Success(h, ops, h.at)
  <2>1. PICK reg : reg = RegisterOf(h)
    OBVIOUS
  <2>3. r = Success(h, (<<Vec(a)>> \o AddressOf(h)) \o <<Imm(v)>>, h.at)
    BY <1>8, <1>10, <1>15, <1>16 DEF ReadGather
  <2>4. (<<Vec(a)>> \o AddressOf(h)) \o <<Imm(v)>> = ops
    <3>1. PICK va, mask : va = Vec(a) /\ mask = Imm(v)
      OBVIOUS
    <3>2. <<va>> \o AddressOf(h) = <<va, b, x, f, d>>
      BY <1>17, OneThenAddress
    <3>3. <<va, b, x, f, d>> \o <<mask>> = <<va, b, x, f, d, mask>>
      BY RegisterAddressMask
    <3> QED
      BY <1>18, <3>1, <3>2, <3>3, Zenon
  <2> QED
    BY <2>3, <2>4, Zenon
<1>20. MemoryOps(h, i, 2, ops)
  <2>1. Len(ops) = 6 /\ ops[1] = Vec(a) /\ ops[2] = b /\ ops[3] = x /\ ops[4] = f /\ ops[5] = d /\ ops[6] = Imm(v)
    BY <1>18
  <2>2. ops[1] = i.ops[1] /\ ops[6] = i.ops[6]
    BY <1>9, <1>11, <1>120, <2>1
  <2>3. \A k \in 1 .. 6 : k \notin {2, 2 + 1, 2 + 2, 2 + 3} => k = 1 \/ k = 6
    OBVIOUS
  <2>4. \A k \in 1 .. Len(i.ops) : k \notin {2, 2 + 1, 2 + 2, 2 + 3} => ops[k] = i.ops[k]
    BY <1>9, <2>2, <2>3
  <2>5. /\ ops[2] = GPR(h.rm) /\ ops[2 + 1] = GPR(h.index) /\ ops[2 + 2] = Imm(h.scale)
        /\ ops[2 + 3] = Imm(h.disp)
    BY <1>17, <2>1
  <2> QED
    BY <1>9, <2>1, <2>4, <2>5 DEF MemoryOps
<1> QED
  BY <1>14, <1>19, <1>20, SuccessMemory, Zenon

\* A load, and the address of one, come back.
LEMMA ReadsLoad ==
  ASSUME NEW bytes, NEW i, NEW source, NEW is64, NEW body, NEW at, NEW end, NEW r,
         Emits(bytes, i, source, is64, body, at, end, r),
         ClassOf(i.name) \in {"LoadQ", "AddressCalc"}
  PROVE SameMemory(r, i, 2, end, is64)
<1>1. PICK n, c, kinds : n = i.name /\ c = ClassOf(i.name) /\ kinds = OperandKinds[c]
  OBVIOUS
<1>2. /\ n \in DOMAIN Records /\ Filled(i, source) /\ is64 \in BOOLEAN /\ body = EmitBody(i, is64)
      /\ body.ok /\ bytes \in Seq(Byte) /\ Starts(bytes, i, is64, body.bytes, at, end, r)
  BY <1>1 DEF Emits, Starts
<1>3. c \in {"LoadQ", "AddressCalc"}
  BY <1>1
<1>4. kinds = <<"r", "m">>
  BY <1>1, <1>3, SMT DEF OperandKinds
<1>5. c \notin Tied /\ c # "CopyVV" /\ c \notin VariantClasses
  BY <1>3, SMT DEF Tied, VariantClasses
<1>6. Class[c][1] = 0 /\ Class[c][2] \in {"LoadQ", "AddressCalc"}
  BY <1>3, SMT DEF Class
<1>7. GroupOf(n) = 0 /\ FormOf(n) \in {"LoadQ", "AddressCalc"}
  BY <1>1, <1>6 DEF GroupOf, FormOf
<1>8. FormFor(n) \in {"LoadQ", "AddressCalc"}
  <2>1. DecodeForm[c] \in {"LoadQ", "AddressCalc"}
    BY <1>3, SMT DEF DecodeForm
  <2> QED
    BY <1>1, <1>2, <1>5, <1>6, <2>1, FormForClass
<1>9. Len(i.ops) = 5
      /\ HoldsKind("r", i.ops, 1)
      /\ HoldsKind("m", i.ops, 2)
  <2>1. Fills(i.ops, source, kinds, 0)
    BY <1>1, <1>2, <1>5 DEF Filled
  <2> QED
    BY <1>4, <2>1 DEF Fills, Place, Size
<1>10. PICK a : a = i.ops[1][2]
  OBVIOUS
<1>11. /\ i.ops[1] = GPR(a) /\ a \in 0 .. 31
  BY <1>9, <1>10, RegisterKind, VectorKind
<1>12. body = MemForm(0, OpcodeBytes(i), a, Mem(i, 2), <<>>)
  <2>1. body = EmitBase(i, is64)
    BY <1>1, <1>2, <1>7 DEF EmitBody
  <2>2. body = EmitMemory(i)
    BY <1>1, <1>2, <1>3, <1>7, <2>1, NamedClasses1, NamedClasses2 DEF EmitBase
  <2> QED
    BY <1>1, <1>2, <1>3, <1>7, <1>10, <2>2, NamedClasses1, NamedClasses2 DEF EmitMemory, Num
<1>13. MemEmits(bytes, i, is64, body, at, end, r, 2)
  <2>1. FormFor(n) \in MemoryForms
    BY <1>8 DEF MemoryForms
  <2> QED
    BY <1>1, <1>2, <1>9, <2>1 DEF MemEmits
<1>14. PICK h, more : MemoryRead(h, i, a, 2, FALSE, more, end, r)
  <2>1. FormFor(i.name) \notin ExtraByteForms
    BY <1>1, <1>8 DEF ExtraByteForms
  <2> QED
    BY <1>1, <1>3, <1>5, <1>8, <1>11, <1>12, <1>13, <2>1, PlainMemoryRead, Zenon
<1>15. /\ h.ok = TRUE /\ h.form = FormFor(n) /\ h.reg = a /\ (h.vector <=> FALSE)
       /\ GPR(h.rm) = i.ops[2] /\ GPR(h.index) = i.ops[3] /\ r = ReadMemory(h)
  BY <1>1, <1>14 DEF MemoryRead
<1>16. r = ReadLoad(h)
  BY <1>8, <1>15 DEF ReadMemory
<1>17. PICK b, x, f, d : AddressOf(h) = <<b, x, f, d>> /\ b = GPR(h.rm) /\ x = GPR(h.index)
                         /\ f = Imm(h.scale) /\ d = Imm(h.disp)
  BY DEF AddressOf
<1>18. PICK ops : ops = <<GPR(a), b, x, f, d>>
  BY Zenon
<1>19. r = Success(h, ops, h.at)
  <2>1. PICK reg : reg = RegisterOf(h)
    OBVIOUS
  <2>2. reg = GPR(a)
    BY <1>8, <1>15, <2>1 DEF RegisterOf
  <2>3. r = Success(h, <<reg>> \o AddressOf(h), h.at)
    BY <1>8, <1>10, <1>15, <1>16, <2>1 DEF ReadLoad
  <2>4. <<reg>> \o AddressOf(h) = ops
    BY <1>15, <1>17, <1>18, <2>2, OneThenAddress
  <2> QED
    BY <2>3, <2>4, Zenon
<1>20. MemoryOps(h, i, 2, ops)
  <2>1. Len(ops) = 5 /\ ops[1] = GPR(a) /\ ops[2] = b /\ ops[3] = x /\ ops[4] = f /\ ops[5] = d
    BY <1>18
  <2>2. ops[1] = i.ops[1]
    BY <1>9, <1>11, <2>1
  <2>3. \A k \in 1 .. 5 : k \notin {2, 2 + 1, 2 + 2, 2 + 3} => k = 1
    OBVIOUS
  <2>4. \A k \in 1 .. Len(i.ops) : k \notin {2, 2 + 1, 2 + 2, 2 + 3} => ops[k] = i.ops[k]
    BY <1>9, <2>2, <2>3
  <2>5. /\ ops[2] = GPR(h.rm) /\ ops[2 + 1] = GPR(h.index) /\ ops[2 + 2] = Imm(h.scale)
        /\ ops[2 + 3] = Imm(h.disp)
    BY <1>17, <2>1
  <2> QED
    BY <1>9, <2>1, <2>4, <2>5 DEF MemoryOps
<1> QED
  BY <1>14, <1>19, <1>20, SuccessMemory, Zenon

\* A store of a pair of registers comes back.
LEMMA ReadsPairStore ==
  ASSUME NEW bytes, NEW i, NEW source, NEW is64, NEW body, NEW at, NEW end, NEW r,
         Emits(bytes, i, source, is64, body, at, end, r),
         ClassOf(i.name) \in {"PairStore"}
  PROVE SameMemory(r, i, 1, end, is64)
<1>1. PICK n, c, kinds : n = i.name /\ c = ClassOf(i.name) /\ kinds = OperandKinds[c]
  OBVIOUS
<1>2. /\ n \in DOMAIN Records /\ Filled(i, source) /\ is64 \in BOOLEAN /\ body = EmitBody(i, is64)
      /\ body.ok /\ bytes \in Seq(Byte) /\ Starts(bytes, i, is64, body.bytes, at, end, r)
  BY <1>1 DEF Emits, Starts
<1>3. c \in {"PairStore"}
  BY <1>1
<1>4. kinds = <<"m", "r", "r">>
  BY <1>1, <1>3, SMT DEF OperandKinds
<1>5. c \notin Tied /\ c # "CopyVV" /\ c \notin VariantClasses
  BY <1>3, SMT DEF Tied, VariantClasses
<1>6. Class[c][1] = 0 /\ Class[c][2] \in {"StoreQ"}
  BY <1>3, SMT DEF Class
<1>7. GroupOf(n) = 0 /\ FormOf(n) \in {"StoreQ"}
  BY <1>1, <1>6 DEF GroupOf, FormOf
<1>8. FormFor(n) \in {"PairStore"}
  <2>1. DecodeForm[c] \in {"PairStore"}
    BY <1>3, SMT DEF DecodeForm
  <2> QED
    BY <1>1, <1>2, <1>5, <1>6, <2>1, FormForClass
<1>9. Len(i.ops) = 6
      /\ HoldsKind("m", i.ops, 1)
      /\ HoldsKind("r", i.ops, 5)
      /\ HoldsKind("r", i.ops, 6)
  <2>1. Fills(i.ops, source, kinds, 0)
    BY <1>1, <1>2, <1>5 DEF Filled
  <2> QED
    BY <1>4, <2>1 DEF Fills, Place, Size
<1>10. PICK a, v : a = i.ops[5][2] /\ v = i.ops[6][2]
  BY Zenon
<1>11. /\ i.ops[5] = GPR(a) /\ a \in 0 .. 31
       /\ i.ops[6] = GPR(v) /\ v \in 0 .. 31
  BY <1>9, <1>10, RegisterKind, VectorKind
<1>12. body = MemForm(0, OpcodeBytes(i), a, Mem(i, 1), <<v>>)
  <2>1. body = EmitBase(i, is64)
    BY <1>1, <1>2, <1>7 DEF EmitBody
  <2>2. body = EmitMemory(i)
    BY <1>1, <1>2, <1>3, <1>7, <2>1, NamedClasses1, NamedClasses2 DEF EmitBase
  <2> QED
    BY <1>1, <1>2, <1>3, <1>7, <1>10, <2>2, NamedClasses1, NamedClasses2 DEF EmitMemory, Num
<1>13. MemEmits(bytes, i, is64, body, at, end, r, 1)
  <2>1. FormFor(n) \in MemoryForms
    BY <1>8 DEF MemoryForms
  <2> QED
    BY <1>1, <1>2, <1>9, <2>1 DEF MemEmits
<1>14. PICK h : MemoryRead(h, i, a, 1, FALSE, v, end, r)
  <2>1. FormFor(i.name) \in ExtraByteForms
    BY <1>1, <1>8 DEF ExtraByteForms
  <2> QED
    BY <1>1, <1>3, <1>5, <1>8, <1>11, <1>12, <1>13, <2>1, PlainMemoryByte, Zenon
<1>15. /\ h.ok = TRUE /\ h.form = FormFor(n) /\ h.reg = a /\ (h.vector <=> FALSE) /\ h.extra = v
       /\ GPR(h.rm) = i.ops[1] /\ GPR(h.index) = i.ops[2] /\ r = ReadMemory(h)
  BY <1>1, <1>14 DEF MemoryRead
<1>16. r = ReadPairStore(h)
  BY <1>8, <1>15 DEF ReadMemory
<1>17. PICK b, x, f, d : AddressOf(h) = <<b, x, f, d>> /\ b = GPR(h.rm) /\ x = GPR(h.index)
                         /\ f = Imm(h.scale) /\ d = Imm(h.disp)
  BY DEF AddressOf
<1>18. PICK ops : ops = <<b, x, f, d, GPR(a), GPR(v)>>
  BY Zenon
<1>19. r = Success(h, ops, h.at)
  <2>1. PICK reg : reg = RegisterOf(h)
    OBVIOUS
  <2>3. r = Success(h, AddressOf(h) \o <<GPR(a), GPR(v)>>, h.at)
    BY <1>8, <1>10, <1>15, <1>16 DEF ReadPairStore
  <2>4. AddressOf(h) \o <<GPR(a), GPR(v)>> = ops
    BY <1>15, <1>17, <1>18, AddressThenTwo
  <2> QED
    BY <2>3, <2>4, Zenon
<1>20. MemoryOps(h, i, 1, ops)
  <2>1. Len(ops) = 6 /\ ops[1] = b /\ ops[2] = x /\ ops[3] = f /\ ops[4] = d /\ ops[5] = GPR(a) /\ ops[6] = GPR(v)
    BY <1>18
  <2>2. ops[5] = i.ops[5] /\ ops[6] = i.ops[6]
    BY <1>9, <1>11, <2>1
  <2>3. \A k \in 1 .. 6 : k \notin {1, 1 + 1, 1 + 2, 1 + 3} => k = 5 \/ k = 6
    OBVIOUS
  <2>4. \A k \in 1 .. Len(i.ops) : k \notin {1, 1 + 1, 1 + 2, 1 + 3} => ops[k] = i.ops[k]
    BY <1>9, <2>2, <2>3
  <2>5. /\ ops[1] = GPR(h.rm) /\ ops[1 + 1] = GPR(h.index) /\ ops[1 + 2] = Imm(h.scale)
        /\ ops[1 + 3] = Imm(h.disp)
    BY <1>17, <2>1
  <2> QED
    BY <1>9, <2>1, <2>4, <2>5 DEF MemoryOps
<1> QED
  BY <1>14, <1>19, <1>20, SuccessMemory, Zenon

\* A scalar load comes back.
LEMMA ReadsScalarLoad ==
  ASSUME NEW bytes, NEW i, NEW source, NEW is64, NEW body, NEW at, NEW end, NEW r,
         Emits(bytes, i, source, is64, body, at, end, r),
         ClassOf(i.name) \in {"FPXLoad"}
  PROVE SameMemory(r, i, 2, end, is64)
<1>1. PICK n, c, kinds : n = i.name /\ c = ClassOf(i.name) /\ kinds = OperandKinds[c]
  OBVIOUS
<1>2. /\ n \in DOMAIN Records /\ Filled(i, source) /\ is64 \in BOOLEAN /\ body = EmitBody(i, is64)
      /\ body.ok /\ bytes \in Seq(Byte) /\ Starts(bytes, i, is64, body.bytes, at, end, r)
  BY <1>1 DEF Emits, Starts
<1>3. c \in {"FPXLoad"}
  BY <1>1
<1>4. kinds = <<"v", "m">>
  BY <1>1, <1>3, SMT DEF OperandKinds
<1>5. c \notin Tied /\ c # "CopyVV"
  BY <1>3, SMT DEF Tied, VariantClasses
<1>6. Class[c][1] = 5 /\ Class[c][2] \in {"ScalarFPLoad"}
  BY <1>3, SMT DEF Class
<1>7. GroupOf(n) = 5 /\ FormOf(n) \in {"ScalarFPLoad"}
  BY <1>1, <1>6 DEF GroupOf, FormOf
<1>8. FormFor(n) \in {"ScalarFPLoad"}
  <2>1. FPXDecodeForm[c] \in {"ScalarFPLoad"}
    BY <1>3, SMT DEF FPXDecodeForm
  <2>2. FormTable[5] = FPXDecodeForm
    BY DEF FormTable
  <2> QED
    BY <1>1, <1>2, <1>5, <1>6, <2>1, <2>2, FormForClass
<1>9. Len(i.ops) = 5
      /\ HoldsKind("v", i.ops, 1)
      /\ HoldsKind("m", i.ops, 2)
  <2>1. Fills(i.ops, source, kinds, 0)
    BY <1>1, <1>2, <1>5 DEF Filled
  <2> QED
    BY <1>4, <2>1 DEF Fills, Place, Size
<1>10. PICK a : a = i.ops[1][2]
  OBVIOUS
<1>11. /\ i.ops[1] = Vec(a) /\ a \in 0 .. 31
  BY <1>9, <1>10, RegisterKind, VectorKind
<1>12. body = MemForm(ScalarOperandControl(i), OpcodeBytes(i), a, Mem(i, 2), <<>>)
  <2>1. body = EmitFPX(i)
    BY <1>1, <1>2, <1>7 DEF EmitBody
  <2>2. body = EmitFPXMemory(i)
    BY <1>1, <1>2, <1>3, <1>7, <2>1 DEF EmitFPX
  <2> QED
    BY <1>1, <1>2, <1>3, <1>7, <1>10, <2>2 DEF EmitFPXMemory, Num
<1>13. MemEmits(bytes, i, is64, body, at, end, r, 2)
  <2>1. FormFor(n) \in MemoryForms
    BY <1>8 DEF MemoryForms
  <2> QED
    BY <1>1, <1>2, <1>9, <2>1 DEF MemEmits
<1>14. PICK h, more : MemoryRead(h, i, a, 2, FALSE, more, end, r)
  <2>1. FormFor(i.name) \notin ExtraByteForms
    BY <1>1, <1>8 DEF ExtraByteForms
  <2> QED
    BY <1>1, <1>3, <1>5, <1>8, <1>11, <1>12, <1>13, <2>1, ScalarMemoryRead, Zenon
<1>15. /\ h.ok = TRUE /\ h.form = FormFor(n) /\ h.reg = a /\ (h.vector <=> FALSE)
       /\ GPR(h.rm) = i.ops[2] /\ GPR(h.index) = i.ops[3] /\ r = ReadMemory(h)
  BY <1>1, <1>14 DEF MemoryRead
<1>16. r = ReadLoad(h)
  BY <1>8, <1>15 DEF ReadMemory
<1>17. PICK b, x, f, d : AddressOf(h) = <<b, x, f, d>> /\ b = GPR(h.rm) /\ x = GPR(h.index)
                         /\ f = Imm(h.scale) /\ d = Imm(h.disp)
  BY DEF AddressOf
<1>18. PICK ops : ops = <<Vec(a), b, x, f, d>>
  BY Zenon
<1>19. r = Success(h, ops, h.at)
  <2>1. PICK reg : reg = RegisterOf(h)
    OBVIOUS
  <2>2. reg = Vec(a)
    BY <1>8, <1>15, <2>1 DEF RegisterOf
  <2>3. r = Success(h, <<reg>> \o AddressOf(h), h.at)
    BY <1>8, <1>10, <1>15, <1>16, <2>1 DEF ReadLoad
  <2>4. <<reg>> \o AddressOf(h) = ops
    BY <1>15, <1>17, <1>18, <2>2, OneThenAddress
  <2> QED
    BY <2>3, <2>4, Zenon
<1>20. MemoryOps(h, i, 2, ops)
  <2>1. Len(ops) = 5 /\ ops[1] = Vec(a) /\ ops[2] = b /\ ops[3] = x /\ ops[4] = f /\ ops[5] = d
    BY <1>18
  <2>2. ops[1] = i.ops[1]
    BY <1>9, <1>11, <2>1
  <2>3. \A k \in 1 .. 5 : k \notin {2, 2 + 1, 2 + 2, 2 + 3} => k = 1
    OBVIOUS
  <2>4. \A k \in 1 .. Len(i.ops) : k \notin {2, 2 + 1, 2 + 2, 2 + 3} => ops[k] = i.ops[k]
    BY <1>9, <2>2, <2>3
  <2>5. /\ ops[2] = GPR(h.rm) /\ ops[2 + 1] = GPR(h.index) /\ ops[2 + 2] = Imm(h.scale)
        /\ ops[2 + 3] = Imm(h.disp)
    BY <1>17, <2>1
  <2> QED
    BY <1>9, <2>1, <2>4, <2>5 DEF MemoryOps
<1> QED
  BY <1>14, <1>19, <1>20, SuccessMemory, Zenon

\* A scalar store comes back.
LEMMA ReadsScalarStore ==
  ASSUME NEW bytes, NEW i, NEW source, NEW is64, NEW body, NEW at, NEW end, NEW r,
         Emits(bytes, i, source, is64, body, at, end, r),
         ClassOf(i.name) \in {"FPXStore"}
  PROVE SameMemory(r, i, 1, end, is64)
<1>1. PICK n, c, kinds : n = i.name /\ c = ClassOf(i.name) /\ kinds = OperandKinds[c]
  OBVIOUS
<1>2. /\ n \in DOMAIN Records /\ Filled(i, source) /\ is64 \in BOOLEAN /\ body = EmitBody(i, is64)
      /\ body.ok /\ bytes \in Seq(Byte) /\ Starts(bytes, i, is64, body.bytes, at, end, r)
  BY <1>1 DEF Emits, Starts
<1>3. c \in {"FPXStore"}
  BY <1>1
<1>4. kinds = <<"m", "v">>
  BY <1>1, <1>3, SMT DEF OperandKinds
<1>5. c \notin Tied /\ c # "CopyVV"
  BY <1>3, SMT DEF Tied, VariantClasses
<1>6. Class[c][1] = 5 /\ Class[c][2] \in {"ScalarFPStore"}
  BY <1>3, SMT DEF Class
<1>7. GroupOf(n) = 5 /\ FormOf(n) \in {"ScalarFPStore"}
  BY <1>1, <1>6 DEF GroupOf, FormOf
<1>8. FormFor(n) \in {"ScalarFPStore"}
  <2>1. FPXDecodeForm[c] \in {"ScalarFPStore"}
    BY <1>3, SMT DEF FPXDecodeForm
  <2>2. FormTable[5] = FPXDecodeForm
    BY DEF FormTable
  <2> QED
    BY <1>1, <1>2, <1>5, <1>6, <2>1, <2>2, FormForClass
<1>9. Len(i.ops) = 5
      /\ HoldsKind("m", i.ops, 1)
      /\ HoldsKind("v", i.ops, 5)
  <2>1. Fills(i.ops, source, kinds, 0)
    BY <1>1, <1>2, <1>5 DEF Filled
  <2> QED
    BY <1>4, <2>1 DEF Fills, Place, Size
<1>10. PICK a : a = i.ops[5][2]
  OBVIOUS
<1>11. /\ i.ops[5] = Vec(a) /\ a \in 0 .. 31
  BY <1>9, <1>10, RegisterKind, VectorKind
<1>12. body = MemForm(ScalarOperandControl(i), OpcodeBytes(i), a, Mem(i, 1), <<>>)
  <2>1. body = EmitFPX(i)
    BY <1>1, <1>2, <1>7 DEF EmitBody
  <2>2. body = EmitFPXMemory(i)
    BY <1>1, <1>2, <1>3, <1>7, <2>1 DEF EmitFPX
  <2> QED
    BY <1>1, <1>2, <1>3, <1>7, <1>10, <2>2 DEF EmitFPXMemory, Num
<1>13. MemEmits(bytes, i, is64, body, at, end, r, 1)
  <2>1. FormFor(n) \in MemoryForms
    BY <1>8 DEF MemoryForms
  <2> QED
    BY <1>1, <1>2, <1>9, <2>1 DEF MemEmits
<1>14. PICK h, more : MemoryRead(h, i, a, 1, FALSE, more, end, r)
  <2>1. FormFor(i.name) \notin ExtraByteForms
    BY <1>1, <1>8 DEF ExtraByteForms
  <2> QED
    BY <1>1, <1>3, <1>5, <1>8, <1>11, <1>12, <1>13, <2>1, ScalarMemoryRead, Zenon
<1>15. /\ h.ok = TRUE /\ h.form = FormFor(n) /\ h.reg = a /\ (h.vector <=> FALSE)
       /\ GPR(h.rm) = i.ops[1] /\ GPR(h.index) = i.ops[2] /\ r = ReadMemory(h)
  BY <1>1, <1>14 DEF MemoryRead
<1>16. r = ReadStore(h)
  BY <1>8, <1>15 DEF ReadMemory
<1>17. PICK b, x, f, d : AddressOf(h) = <<b, x, f, d>> /\ b = GPR(h.rm) /\ x = GPR(h.index)
                         /\ f = Imm(h.scale) /\ d = Imm(h.disp)
  BY DEF AddressOf
<1>18. PICK ops : ops = <<b, x, f, d, Vec(a)>>
  BY Zenon
<1>19. r = Success(h, ops, h.at)
  <2>1. PICK reg : reg = RegisterOf(h)
    OBVIOUS
  <2>2. reg = Vec(a)
    BY <1>8, <1>15, <2>1 DEF RegisterOf
  <2>3. r = Success(h, AddressOf(h) \o <<reg>>, h.at)
    BY <1>8, <1>10, <1>15, <1>16, <2>1 DEF ReadStore
  <2>4. AddressOf(h) \o <<reg>> = ops
    BY <1>15, <1>17, <1>18, <2>2, AddressThenOne
  <2> QED
    BY <2>3, <2>4, Zenon
<1>20. MemoryOps(h, i, 1, ops)
  <2>1. Len(ops) = 5 /\ ops[1] = b /\ ops[2] = x /\ ops[3] = f /\ ops[4] = d /\ ops[5] = Vec(a)
    BY <1>18
  <2>2. ops[5] = i.ops[5]
    BY <1>9, <1>11, <2>1
  <2>3. \A k \in 1 .. 5 : k \notin {1, 1 + 1, 1 + 2, 1 + 3} => k = 5
    OBVIOUS
  <2>4. \A k \in 1 .. Len(i.ops) : k \notin {1, 1 + 1, 1 + 2, 1 + 3} => ops[k] = i.ops[k]
    BY <1>9, <2>2, <2>3
  <2>5. /\ ops[1] = GPR(h.rm) /\ ops[1 + 1] = GPR(h.index) /\ ops[1 + 2] = Imm(h.scale)
        /\ ops[1 + 3] = Imm(h.disp)
    BY <1>17, <2>1
  <2> QED
    BY <1>9, <2>1, <2>4, <2>5 DEF MemoryOps
<1> QED
  BY <1>14, <1>19, <1>20, SuccessMemory, Zenon

\* A scatter comes back with its mask.
LEMMA ReadsScatter ==
  ASSUME NEW bytes, NEW i, NEW source, NEW is64, NEW body, NEW at, NEW end, NEW r,
         Emits(bytes, i, source, is64, body, at, end, r),
         ClassOf(i.name) \in {"AVXScatter"}
  PROVE SameMemory(r, i, 1, end, is64)
<1>1. PICK n, c, kinds : n = i.name /\ c = ClassOf(i.name) /\ kinds = OperandKinds[c]
  OBVIOUS
<1>2. /\ n \in DOMAIN Records /\ Filled(i, source) /\ is64 \in BOOLEAN /\ body = EmitBody(i, is64)
      /\ body.ok /\ bytes \in Seq(Byte) /\ Starts(bytes, i, is64, body.bytes, at, end, r)
  BY <1>1 DEF Emits, Starts
<1>3. c \in {"AVXScatter"}
  BY <1>1
<1>4. kinds = <<"m", "v", "i">>
  BY <1>1, <1>3, SMT DEF OperandKinds
<1>5. c \notin Tied /\ c # "CopyVV" /\ c \notin VariantClasses
  BY <1>3, SMT DEF Tied, VariantClasses
<1>6. Class[c][1] = 1 /\ Class[c][2] \in {"VectorStore"}
  BY <1>3, SMT DEF Class
<1>7. GroupOf(n) = 1 /\ FormOf(n) \in {"VectorStore"}
  BY <1>1, <1>6 DEF GroupOf, FormOf
<1>8. FormFor(n) \in {"AVXScatter"}
  <2>1. AVXDecodeForm[c] \in {"AVXScatter"}
    BY <1>3, SMT DEF AVXDecodeForm
  <2>2. FormTable[1] = AVXDecodeForm
    BY DEF FormTable
  <2> QED
    BY <1>1, <1>2, <1>5, <1>6, <2>1, <2>2, FormForClass
<1>9. Len(i.ops) = 6
      /\ HoldsKind("m", i.ops, 1)
      /\ HoldsKind("v", i.ops, 5)
      /\ HoldsKind("i", i.ops, 6)
  <2>1. Fills(i.ops, source, kinds, 0)
    BY <1>1, <1>2, <1>5 DEF Filled
  <2> QED
    BY <1>4, <2>1 DEF Fills, Place, Size
<1>10. PICK a, v : a = i.ops[5][2] /\ v = i.ops[6][2]
  BY Zenon
<1>11. /\ i.ops[5] = Vec(a) /\ a \in 0 .. 31
  BY <1>9, <1>10, RegisterKind, VectorKind
<1>12. body = MemForm(64, OpcodeBytes(i), a, Mem(i, 1), <<24, v>>) /\ UInt(i.ops[6], 8)
  <2>1. body = EmitAVX(i)
    BY <1>1, <1>2, <1>7 DEF EmitBody
  <2>2. body = EmitAVXMemory(i)
    BY <1>1, <1>2, <1>3, <1>7, <2>1 DEF EmitAVX
  <2> QED
    BY <1>1, <1>2, <1>3, <1>7, <1>10, <2>2 DEF EmitAVXMemory, Num, Rejected
<1>120. i.ops[6] = Imm(v) /\ v \in Byte
  BY <1>9, <1>10, <1>12, ByteImmediate
<1>13. MemEmits(bytes, i, is64, body, at, end, r, 1)
  <2>1. FormFor(n) \in MemoryForms
    BY <1>8 DEF MemoryForms
  <2> QED
    BY <1>1, <1>2, <1>9, <2>1 DEF MemEmits
<1>14. PICK h : MemoryRead(h, i, a, 1, TRUE, v, end, r)
  <2>1. FormFor(i.name) \in ExtraByteForms
    BY <1>1, <1>8 DEF ExtraByteForms
  <2> QED
    BY <1>1, <1>3, <1>5, <1>8, <1>11, <1>12, <1>13, <2>1, <1>120, VectorMemoryByte, Zenon
<1>15. /\ h.ok = TRUE /\ h.form = FormFor(n) /\ h.reg = a /\ (h.vector <=> TRUE) /\ h.extra = v
       /\ GPR(h.rm) = i.ops[1] /\ GPR(h.index) = i.ops[2] /\ r = ReadMemory(h)
  BY <1>1, <1>14 DEF MemoryRead
<1>16. r = ReadScatter(h)
  BY <1>8, <1>15 DEF ReadMemory
<1>17. PICK b, x, f, d : AddressOf(h) = <<b, x, f, d>> /\ b = GPR(h.rm) /\ x = GPR(h.index)
                         /\ f = Imm(h.scale) /\ d = Imm(h.disp)
  BY DEF AddressOf
<1>18. PICK ops : ops = <<b, x, f, d, Vec(a), Imm(v)>>
  BY Zenon
<1>19. r = Success(h, ops, h.at)
  <2>1. PICK reg : reg = RegisterOf(h)
    OBVIOUS
  <2>3. r = Success(h, AddressOf(h) \o <<Vec(a), Imm(v)>>, h.at)
    BY <1>8, <1>10, <1>15, <1>16 DEF ReadScatter
  <2>4. AddressOf(h) \o <<Vec(a), Imm(v)>> = ops
    BY <1>15, <1>17, <1>18, AddressThenTwo
  <2> QED
    BY <2>3, <2>4, Zenon
<1>20. MemoryOps(h, i, 1, ops)
  <2>1. Len(ops) = 6 /\ ops[1] = b /\ ops[2] = x /\ ops[3] = f /\ ops[4] = d /\ ops[5] = Vec(a) /\ ops[6] = Imm(v)
    BY <1>18
  <2>2. ops[5] = i.ops[5] /\ ops[6] = i.ops[6]
    BY <1>9, <1>11, <1>120, <2>1
  <2>3. \A k \in 1 .. 6 : k \notin {1, 1 + 1, 1 + 2, 1 + 3} => k = 5 \/ k = 6
    OBVIOUS
  <2>4. \A k \in 1 .. Len(i.ops) : k \notin {1, 1 + 1, 1 + 2, 1 + 3} => ops[k] = i.ops[k]
    BY <1>9, <2>2, <2>3
  <2>5. /\ ops[1] = GPR(h.rm) /\ ops[1 + 1] = GPR(h.index) /\ ops[1 + 2] = Imm(h.scale)
        /\ ops[1 + 3] = Imm(h.disp)
    BY <1>17, <2>1
  <2> QED
    BY <1>9, <2>1, <2>4, <2>5 DEF MemoryOps
<1> QED
  BY <1>14, <1>19, <1>20, SuccessMemory, Zenon

\* A store comes back.
LEMMA ReadsStore ==
  ASSUME NEW bytes, NEW i, NEW source, NEW is64, NEW body, NEW at, NEW end, NEW r,
         Emits(bytes, i, source, is64, body, at, end, r),
         ClassOf(i.name) \in {"StoreQ"}
  PROVE SameMemory(r, i, 1, end, is64)
<1>1. PICK n, c, kinds : n = i.name /\ c = ClassOf(i.name) /\ kinds = OperandKinds[c]
  OBVIOUS
<1>2. /\ n \in DOMAIN Records /\ Filled(i, source) /\ is64 \in BOOLEAN /\ body = EmitBody(i, is64)
      /\ body.ok /\ bytes \in Seq(Byte) /\ Starts(bytes, i, is64, body.bytes, at, end, r)
  BY <1>1 DEF Emits, Starts
<1>3. c \in {"StoreQ"}
  BY <1>1
<1>4. kinds = <<"m", "r">>
  BY <1>1, <1>3, SMT DEF OperandKinds
<1>5. c \notin Tied /\ c # "CopyVV" /\ c \notin VariantClasses
  BY <1>3, SMT DEF Tied, VariantClasses
<1>6. Class[c][1] = 0 /\ Class[c][2] \in {"StoreQ"}
  BY <1>3, SMT DEF Class
<1>7. GroupOf(n) = 0 /\ FormOf(n) \in {"StoreQ"}
  BY <1>1, <1>6 DEF GroupOf, FormOf
<1>8. FormFor(n) \in {"StoreQ"}
  <2>1. DecodeForm[c] \in {"StoreQ"}
    BY <1>3, SMT DEF DecodeForm
  <2> QED
    BY <1>1, <1>2, <1>5, <1>6, <2>1, FormForClass
<1>9. Len(i.ops) = 5
      /\ HoldsKind("m", i.ops, 1)
      /\ HoldsKind("r", i.ops, 5)
  <2>1. Fills(i.ops, source, kinds, 0)
    BY <1>1, <1>2, <1>5 DEF Filled
  <2> QED
    BY <1>4, <2>1 DEF Fills, Place, Size
<1>10. PICK a : a = i.ops[5][2]
  OBVIOUS
<1>11. /\ i.ops[5] = GPR(a) /\ a \in 0 .. 31
  BY <1>9, <1>10, RegisterKind, VectorKind
<1>12. body = MemForm(0, OpcodeBytes(i), a, Mem(i, 1), <<>>)
  <2>1. body = EmitBase(i, is64)
    BY <1>1, <1>2, <1>7 DEF EmitBody
  <2>2. body = EmitMemory(i)
    BY <1>1, <1>2, <1>3, <1>7, <2>1, NamedClasses1, NamedClasses2 DEF EmitBase
  <2> QED
    BY <1>1, <1>2, <1>3, <1>7, <1>10, <2>2, NamedClasses1, NamedClasses2 DEF EmitMemory, Num
<1>13. MemEmits(bytes, i, is64, body, at, end, r, 1)
  <2>1. FormFor(n) \in MemoryForms
    BY <1>8 DEF MemoryForms
  <2> QED
    BY <1>1, <1>2, <1>9, <2>1 DEF MemEmits
<1>14. PICK h, more : MemoryRead(h, i, a, 1, FALSE, more, end, r)
  <2>1. FormFor(i.name) \notin ExtraByteForms
    BY <1>1, <1>8 DEF ExtraByteForms
  <2> QED
    BY <1>1, <1>3, <1>5, <1>8, <1>11, <1>12, <1>13, <2>1, PlainMemoryRead, Zenon
<1>15. /\ h.ok = TRUE /\ h.form = FormFor(n) /\ h.reg = a /\ (h.vector <=> FALSE)
       /\ GPR(h.rm) = i.ops[1] /\ GPR(h.index) = i.ops[2] /\ r = ReadMemory(h)
  BY <1>1, <1>14 DEF MemoryRead
<1>16. r = ReadStore(h)
  BY <1>8, <1>15 DEF ReadMemory
<1>17. PICK b, x, f, d : AddressOf(h) = <<b, x, f, d>> /\ b = GPR(h.rm) /\ x = GPR(h.index)
                         /\ f = Imm(h.scale) /\ d = Imm(h.disp)
  BY DEF AddressOf
<1>18. PICK ops : ops = <<b, x, f, d, GPR(a)>>
  BY Zenon
<1>19. r = Success(h, ops, h.at)
  <2>1. PICK reg : reg = RegisterOf(h)
    OBVIOUS
  <2>2. reg = GPR(a)
    BY <1>8, <1>15, <2>1 DEF RegisterOf
  <2>3. r = Success(h, AddressOf(h) \o <<reg>>, h.at)
    BY <1>8, <1>10, <1>15, <1>16, <2>1 DEF ReadStore
  <2>4. AddressOf(h) \o <<reg>> = ops
    BY <1>15, <1>17, <1>18, <2>2, AddressThenOne
  <2> QED
    BY <2>3, <2>4, Zenon
<1>20. MemoryOps(h, i, 1, ops)
  <2>1. Len(ops) = 5 /\ ops[1] = b /\ ops[2] = x /\ ops[3] = f /\ ops[4] = d /\ ops[5] = GPR(a)
    BY <1>18
  <2>2. ops[5] = i.ops[5]
    BY <1>9, <1>11, <2>1
  <2>3. \A k \in 1 .. 5 : k \notin {1, 1 + 1, 1 + 2, 1 + 3} => k = 5
    OBVIOUS
  <2>4. \A k \in 1 .. Len(i.ops) : k \notin {1, 1 + 1, 1 + 2, 1 + 3} => ops[k] = i.ops[k]
    BY <1>9, <2>2, <2>3
  <2>5. /\ ops[1] = GPR(h.rm) /\ ops[1 + 1] = GPR(h.index) /\ ops[1 + 2] = Imm(h.scale)
        /\ ops[1 + 3] = Imm(h.disp)
    BY <1>17, <2>1
  <2> QED
    BY <1>9, <2>1, <2>4, <2>5 DEF MemoryOps
<1> QED
  BY <1>14, <1>19, <1>20, SuccessMemory, Zenon

\* A system instruction of an address alone comes back.
LEMMA ReadsSystemAddress ==
  ASSUME NEW bytes, NEW i, NEW source, NEW is64, NEW body, NEW at, NEW end, NEW r,
         Emits(bytes, i, source, is64, body, at, end, r),
         ClassOf(i.name) \in {"SysXMemory"}
  PROVE SameMemory(r, i, 1, end, is64)
<1>1. PICK n, c, kinds : n = i.name /\ c = ClassOf(i.name) /\ kinds = OperandKinds[c]
  OBVIOUS
<1>2. /\ n \in DOMAIN Records /\ Filled(i, source) /\ is64 \in BOOLEAN /\ body = EmitBody(i, is64)
      /\ body.ok /\ bytes \in Seq(Byte) /\ Starts(bytes, i, is64, body.bytes, at, end, r)
  BY <1>1 DEF Emits, Starts
<1>3. c \in {"SysXMemory"}
  BY <1>1
<1>4. kinds = <<"m">>
  BY <1>1, <1>3, SMT DEF OperandKinds
<1>5. c \notin Tied /\ c # "CopyVV" /\ c \notin VariantClasses
  BY <1>3, SMT DEF Tied, VariantClasses
<1>6. Class[c][1] = 4 /\ Class[c][2] \in {"LoadQ"}
  BY <1>3, SMT DEF Class
<1>7. GroupOf(n) = 4 /\ FormOf(n) \in {"LoadQ"}
  BY <1>1, <1>6 DEF GroupOf, FormOf
<1>8. FormFor(n) \in {"SysXMemory"}
  <2>1. SysXDecodeForm[c] \in {"SysXMemory"}
    BY <1>3, SMT DEF SysXDecodeForm
  <2>2. FormTable[4] = SysXDecodeForm
    BY DEF FormTable
  <2> QED
    BY <1>1, <1>2, <1>5, <1>6, <2>1, <2>2, FormForClass
<1>9. Len(i.ops) = 4
      /\ HoldsKind("m", i.ops, 1)
  <2>1. Fills(i.ops, source, kinds, 0)
    BY <1>1, <1>2, <1>5 DEF Filled
  <2> QED
    BY <1>4, <2>1 DEF Fills, Place, Size
<1>10. PICK a : a = 0
  OBVIOUS
<1>11. a \in 0 .. 31
  BY <1>10
<1>12. body = MemForm(0, OpcodeBytes(i), a, Mem(i, 1), <<>>)
  <2>1. body = EmitSysX(i)
    BY <1>1, <1>2, <1>7 DEF EmitBody
  <2>2. body = EmitSysXMemory(i)
    BY <1>1, <1>2, <1>3, <1>7, <2>1, NamedClasses3, NamedClasses4 DEF EmitSysX
  <2> QED
    BY <1>1, <1>2, <1>3, <1>7, <1>10, <2>2, NamedClasses3, NamedClasses4 DEF EmitSysXMemory, Num
<1>13. MemEmits(bytes, i, is64, body, at, end, r, 1)
  <2>1. FormFor(n) \in MemoryForms
    BY <1>8 DEF MemoryForms
  <2> QED
    BY <1>1, <1>2, <1>9, <2>1 DEF MemEmits
<1>14. PICK h, more : MemoryRead(h, i, a, 1, FALSE, more, end, r)
  <2>1. FormFor(i.name) \notin ExtraByteForms
    BY <1>1, <1>8 DEF ExtraByteForms
  <2> QED
    BY <1>1, <1>3, <1>5, <1>8, <1>11, <1>12, <1>13, <2>1, PlainMemoryRead, Zenon
<1>15. /\ h.ok = TRUE /\ h.form = FormFor(n) /\ h.reg = a /\ (h.vector <=> FALSE)
       /\ GPR(h.rm) = i.ops[1] /\ GPR(h.index) = i.ops[2] /\ r = ReadMemory(h)
  BY <1>1, <1>14 DEF MemoryRead
<1>16. r = ReadAddressOnly(h)
  BY <1>8, <1>15 DEF ReadMemory
<1>17. PICK b, x, f, d : AddressOf(h) = <<b, x, f, d>> /\ b = GPR(h.rm) /\ x = GPR(h.index)
                         /\ f = Imm(h.scale) /\ d = Imm(h.disp)
  BY DEF AddressOf
<1>18. PICK ops : ops = <<b, x, f, d>>
  BY Zenon
<1>19. r = Success(h, ops, h.at)
  <2>1. PICK reg : reg = RegisterOf(h)
    OBVIOUS
  <2>3. r = Success(h, AddressOf(h), h.at)
    BY <1>8, <1>10, <1>15, <1>16 DEF ReadAddressOnly
  <2>4. AddressOf(h) = ops
    BY <1>15, <1>17, <1>18
  <2> QED
    BY <2>3, <2>4
<1>20. MemoryOps(h, i, 1, ops)
  <2>1. Len(ops) = 4 /\ ops[1] = b /\ ops[2] = x /\ ops[3] = f /\ ops[4] = d
    BY <1>18
  <2>3. \A k \in 1 .. 4 : k \notin {1, 1 + 1, 1 + 2, 1 + 3} => FALSE
    OBVIOUS
  <2>4. \A k \in 1 .. Len(i.ops) : k \notin {1, 1 + 1, 1 + 2, 1 + 3} => ops[k] = i.ops[k]
    BY <1>9, <2>3
  <2>5. /\ ops[1] = GPR(h.rm) /\ ops[1 + 1] = GPR(h.index) /\ ops[1 + 2] = Imm(h.scale)
        /\ ops[1 + 3] = Imm(h.disp)
    BY <1>17, <2>1
  <2> QED
    BY <1>9, <2>1, <2>4, <2>5 DEF MemoryOps
<1> QED
  BY <1>14, <1>19, <1>20, SuccessMemory, Zenon

\* A system instruction of an address and a register comes back.
LEMMA ReadsSystemStore ==
  ASSUME NEW bytes, NEW i, NEW source, NEW is64, NEW body, NEW at, NEW end, NEW r,
         Emits(bytes, i, source, is64, body, at, end, r),
         ClassOf(i.name) \in {"SysXMaskedMemory", "SysXStoreMemory"}
  PROVE SameMemory(r, i, 1, end, is64)
<1>1. PICK n, c, kinds : n = i.name /\ c = ClassOf(i.name) /\ kinds = OperandKinds[c]
  OBVIOUS
<1>2. /\ n \in DOMAIN Records /\ Filled(i, source) /\ is64 \in BOOLEAN /\ body = EmitBody(i, is64)
      /\ body.ok /\ bytes \in Seq(Byte) /\ Starts(bytes, i, is64, body.bytes, at, end, r)
  BY <1>1 DEF Emits, Starts
<1>3. c \in {"SysXMaskedMemory", "SysXStoreMemory"}
  BY <1>1
<1>4. kinds = <<"m", "r">>
  BY <1>1, <1>3, SMT DEF OperandKinds
<1>5. c \notin Tied /\ c # "CopyVV" /\ c \notin VariantClasses
  BY <1>3, SMT DEF Tied, VariantClasses
<1>6. Class[c][1] = 4 /\ Class[c][2] \in {"StoreQ"}
  BY <1>3, SMT DEF Class
<1>7. GroupOf(n) = 4 /\ FormOf(n) \in {"StoreQ"}
  BY <1>1, <1>6 DEF GroupOf, FormOf
<1>8. FormFor(n) \in {"SysXMaskedMemory", "SysXStoreMemory"}
  <2>1. SysXDecodeForm[c] \in {"SysXMaskedMemory", "SysXStoreMemory"}
    BY <1>3, SMT DEF SysXDecodeForm
  <2>2. FormTable[4] = SysXDecodeForm
    BY DEF FormTable
  <2> QED
    BY <1>1, <1>2, <1>5, <1>6, <2>1, <2>2, FormForClass
<1>9. Len(i.ops) = 5
      /\ HoldsKind("m", i.ops, 1)
      /\ HoldsKind("r", i.ops, 5)
  <2>1. Fills(i.ops, source, kinds, 0)
    BY <1>1, <1>2, <1>5 DEF Filled
  <2> QED
    BY <1>4, <2>1 DEF Fills, Place, Size
<1>10. PICK a : a = i.ops[5][2]
  OBVIOUS
<1>11. /\ i.ops[5] = GPR(a) /\ a \in 0 .. 31
  BY <1>9, <1>10, RegisterKind, VectorKind
<1>12. body = MemForm(0, OpcodeBytes(i), a, Mem(i, 1), <<>>)
  <2>1. body = EmitSysX(i)
    BY <1>1, <1>2, <1>7 DEF EmitBody
  <2>2. body = EmitSysXMemory(i)
    BY <1>1, <1>2, <1>3, <1>7, <2>1, NamedClasses3, NamedClasses4 DEF EmitSysX
  <2> QED
    BY <1>1, <1>2, <1>3, <1>7, <1>10, <2>2, NamedClasses3, NamedClasses4 DEF EmitSysXMemory, Num
<1>13. MemEmits(bytes, i, is64, body, at, end, r, 1)
  <2>1. FormFor(n) \in MemoryForms
    BY <1>8 DEF MemoryForms
  <2> QED
    BY <1>1, <1>2, <1>9, <2>1 DEF MemEmits
<1>14. PICK h, more : MemoryRead(h, i, a, 1, FALSE, more, end, r)
  <2>1. FormFor(i.name) \notin ExtraByteForms
    BY <1>1, <1>8 DEF ExtraByteForms
  <2> QED
    BY <1>1, <1>3, <1>5, <1>8, <1>11, <1>12, <1>13, <2>1, PlainMemoryRead, Zenon
<1>15. /\ h.ok = TRUE /\ h.form = FormFor(n) /\ h.reg = a /\ (h.vector <=> FALSE)
       /\ GPR(h.rm) = i.ops[1] /\ GPR(h.index) = i.ops[2] /\ r = ReadMemory(h)
  BY <1>1, <1>14 DEF MemoryRead
<1>16. r = ReadStore(h)
  BY <1>8, <1>15 DEF ReadMemory
<1>17. PICK b, x, f, d : AddressOf(h) = <<b, x, f, d>> /\ b = GPR(h.rm) /\ x = GPR(h.index)
                         /\ f = Imm(h.scale) /\ d = Imm(h.disp)
  BY DEF AddressOf
<1>18. PICK ops : ops = <<b, x, f, d, GPR(a)>>
  BY Zenon
<1>19. r = Success(h, ops, h.at)
  <2>1. PICK reg : reg = RegisterOf(h)
    OBVIOUS
  <2>2. reg = GPR(a)
    BY <1>8, <1>15, <2>1 DEF RegisterOf
  <2>3. r = Success(h, AddressOf(h) \o <<reg>>, h.at)
    BY <1>8, <1>10, <1>15, <1>16, <2>1 DEF ReadStore
  <2>4. AddressOf(h) \o <<reg>> = ops
    BY <1>15, <1>17, <1>18, <2>2, AddressThenOne
  <2> QED
    BY <2>3, <2>4, Zenon
<1>20. MemoryOps(h, i, 1, ops)
  <2>1. Len(ops) = 5 /\ ops[1] = b /\ ops[2] = x /\ ops[3] = f /\ ops[4] = d /\ ops[5] = GPR(a)
    BY <1>18
  <2>2. ops[5] = i.ops[5]
    BY <1>9, <1>11, <2>1
  <2>3. \A k \in 1 .. 5 : k \notin {1, 1 + 1, 1 + 2, 1 + 3} => k = 5
    OBVIOUS
  <2>4. \A k \in 1 .. Len(i.ops) : k \notin {1, 1 + 1, 1 + 2, 1 + 3} => ops[k] = i.ops[k]
    BY <1>9, <2>2, <2>3
  <2>5. /\ ops[1] = GPR(h.rm) /\ ops[1 + 1] = GPR(h.index) /\ ops[1 + 2] = Imm(h.scale)
        /\ ops[1 + 3] = Imm(h.disp)
    BY <1>17, <2>1
  <2> QED
    BY <1>9, <2>1, <2>4, <2>5 DEF MemoryOps
<1> QED
  BY <1>14, <1>19, <1>20, SuccessMemory, Zenon

\* An exchange of a vector comes back.
LEMMA ReadsVectorExchange ==
  ASSUME NEW bytes, NEW i, NEW source, NEW is64, NEW body, NEW at, NEW end, NEW r,
         Emits(bytes, i, source, is64, body, at, end, r),
         ClassOf(i.name) \in {"AtomicExchange128"}
  PROVE SameMemory(r, i, 3, end, is64)
<1>1. PICK n, c, kinds : n = i.name /\ c = ClassOf(i.name) /\ kinds = OperandKinds[c]
  OBVIOUS
<1>2. /\ n \in DOMAIN Records /\ Filled(i, source) /\ is64 \in BOOLEAN /\ body = EmitBody(i, is64)
      /\ body.ok /\ bytes \in Seq(Byte) /\ Starts(bytes, i, is64, body.bytes, at, end, r)
  BY <1>1 DEF Emits, Starts
<1>3. c \in {"AtomicExchange128"}
  BY <1>1
<1>4. kinds = <<"v", "m">>
  BY <1>1, <1>3, SMT DEF OperandKinds
<1>5. c \in Tied /\ c # "CopyVV" /\ c \notin VariantClasses
  BY <1>3, SMT DEF Tied, VariantClasses
<1>6. Class[c][1] = 0 /\ Class[c][2] \in {"VectorLoad"}
  BY <1>3, SMT DEF Class
<1>7. GroupOf(n) = 0 /\ FormOf(n) \in {"VectorLoad"}
  BY <1>1, <1>6 DEF GroupOf, FormOf
<1>8. FormFor(n) \in {"VectorAtomic"}
  <2>1. DecodeForm[c] \in {"VectorAtomic"}
    BY <1>3, SMT DEF DecodeForm
  <2> QED
    BY <1>1, <1>2, <1>5, <1>6, <2>1, FormForClass
<1>9. Len(i.ops) = 6 /\ i.ops[1] = i.ops[2]
      /\ HoldsKind("v", i.ops, 2)
      /\ HoldsKind("m", i.ops, 3)
  <2>1. Fills(i.ops, source, kinds, 1)
    BY <1>1, <1>2, <1>5 DEF Filled
  <2> QED
    BY <1>4, <2>1 DEF Fills, Place, Size
<1>10. PICK a : a = i.ops[1][2]
  OBVIOUS
<1>11. /\ i.ops[1] = Vec(a) /\ a \in 0 .. 31
  BY <1>9, <1>10, RegisterKind, VectorKind
<1>12. body = MemForm(64, OpcodeBytes(i), a, Mem(i, 3), <<24>>)
  <2>1. body = EmitBase(i, is64)
    BY <1>1, <1>2, <1>7 DEF EmitBody
  <2>2. body = EmitVectorMemory(i)
    BY <1>1, <1>2, <1>3, <1>7, <2>1, NamedClasses1, NamedClasses2 DEF EmitBase
  <2>3. ScalarVectorCtl(i) = 24
    BY <1>1, <1>2, <1>5, ScalarLanes
  <2>4. n = "XCHG128"
    BY <1>1, <1>2, <1>3, NamedClasses2
  <2>5. FormOf(n) = "VectorLoad"
    BY <1>7
  <2> QED
    BY <1>1, <1>10, <2>2, <2>3, <2>4, <2>5 DEF EmitVectorMemory, Num
<1>13. MemEmits(bytes, i, is64, body, at, end, r, 3)
  <2>1. FormFor(n) \in MemoryForms
    BY <1>8 DEF MemoryForms
  <2> QED
    BY <1>1, <1>2, <1>9, <2>1 DEF MemEmits
<1>14. PICK h, more : MemoryRead(h, i, a, 3, TRUE, more, end, r)
  <2>1. FormFor(i.name) \notin ExtraByteForms
    BY <1>1, <1>8 DEF ExtraByteForms
  <2> QED
    BY <1>1, <1>3, <1>5, <1>8, <1>11, <1>12, <1>13, <2>1, VectorMemoryRead, Zenon
<1>15. /\ h.ok = TRUE /\ h.form = FormFor(n) /\ h.reg = a /\ (h.vector <=> TRUE)
       /\ GPR(h.rm) = i.ops[3] /\ GPR(h.index) = i.ops[4] /\ r = ReadMemory(h)
  BY <1>1, <1>14 DEF MemoryRead
<1>16. r = ReadVectorAtomic(h)
  BY <1>8, <1>15 DEF ReadMemory
<1>17. PICK b, x, f, d : AddressOf(h) = <<b, x, f, d>> /\ b = GPR(h.rm) /\ x = GPR(h.index)
                         /\ f = Imm(h.scale) /\ d = Imm(h.disp)
  BY DEF AddressOf
<1>18. PICK ops : ops = <<Vec(a), Vec(a), b, x, f, d>>
  BY Zenon
<1>19. r = Success(h, ops, h.at)
  <2>1. PICK reg : reg = RegisterOf(h)
    OBVIOUS
  <2>3. r = Success(h, <<Vec(a), Vec(a)>> \o AddressOf(h), h.at)
    BY <1>8, <1>10, <1>15, <1>16 DEF ReadVectorAtomic
  <2>4. <<Vec(a), Vec(a)>> \o AddressOf(h) = ops
    BY <1>15, <1>17, <1>18, TwoThenAddress
  <2> QED
    BY <2>3, <2>4, Zenon
<1>20. MemoryOps(h, i, 3, ops)
  <2>1. Len(ops) = 6 /\ ops[1] = Vec(a) /\ ops[2] = Vec(a) /\ ops[3] = b /\ ops[4] = x /\ ops[5] = f /\ ops[6] = d
    BY <1>18
  <2>2. ops[1] = i.ops[1] /\ ops[2] = i.ops[2]
    BY <1>9, <1>11, <2>1
  <2>3. \A k \in 1 .. 6 : k \notin {3, 3 + 1, 3 + 2, 3 + 3} => k = 1 \/ k = 2
    OBVIOUS
  <2>4. \A k \in 1 .. Len(i.ops) : k \notin {3, 3 + 1, 3 + 2, 3 + 3} => ops[k] = i.ops[k]
    BY <1>9, <2>2, <2>3
  <2>5. /\ ops[3] = GPR(h.rm) /\ ops[3 + 1] = GPR(h.index) /\ ops[3 + 2] = Imm(h.scale)
        /\ ops[3 + 3] = Imm(h.disp)
    BY <1>17, <2>1
  <2> QED
    BY <1>9, <2>1, <2>4, <2>5 DEF MemoryOps
<1> QED
  BY <1>14, <1>19, <1>20, SuccessMemory, Zenon

\* A vector load comes back.
LEMMA ReadsVectorLoad ==
  ASSUME NEW bytes, NEW i, NEW source, NEW is64, NEW body, NEW at, NEW end, NEW r,
         Emits(bytes, i, source, is64, body, at, end, r),
         ClassOf(i.name) \in {"VectorLoad"}
  PROVE SameMemory(r, i, 2, end, is64)
<1>1. PICK n, c, kinds : n = i.name /\ c = ClassOf(i.name) /\ kinds = OperandKinds[c]
  OBVIOUS
<1>2. /\ n \in DOMAIN Records /\ Filled(i, source) /\ is64 \in BOOLEAN /\ body = EmitBody(i, is64)
      /\ body.ok /\ bytes \in Seq(Byte) /\ Starts(bytes, i, is64, body.bytes, at, end, r)
  BY <1>1 DEF Emits, Starts
<1>3. c \in {"VectorLoad"}
  BY <1>1
<1>4. kinds = <<"v", "m">>
  BY <1>1, <1>3, SMT DEF OperandKinds
<1>5. c \notin Tied /\ c # "CopyVV" /\ c \notin VariantClasses
  BY <1>3, SMT DEF Tied, VariantClasses
<1>6. Class[c][1] = 0 /\ Class[c][2] \in {"VectorLoad"}
  BY <1>3, SMT DEF Class
<1>7. GroupOf(n) = 0 /\ FormOf(n) \in {"VectorLoad"}
  BY <1>1, <1>6 DEF GroupOf, FormOf
<1>8. FormFor(n) \in {"VectorLoad"}
  <2>1. DecodeForm[c] \in {"VectorLoad"}
    BY <1>3, SMT DEF DecodeForm
  <2> QED
    BY <1>1, <1>2, <1>5, <1>6, <2>1, FormForClass
<1>9. Len(i.ops) = 5
      /\ HoldsKind("v", i.ops, 1)
      /\ HoldsKind("m", i.ops, 2)
  <2>1. Fills(i.ops, source, kinds, 0)
    BY <1>1, <1>2, <1>5 DEF Filled
  <2> QED
    BY <1>4, <2>1 DEF Fills, Place, Size
<1>10. PICK a : a = i.ops[1][2]
  OBVIOUS
<1>11. /\ i.ops[1] = Vec(a) /\ a \in 0 .. 31
  BY <1>9, <1>10, RegisterKind, VectorKind
<1>12. body = MemForm(64, OpcodeBytes(i), a, Mem(i, 2), <<24>>)
  <2>1. body = EmitBase(i, is64)
    BY <1>1, <1>2, <1>7 DEF EmitBody
  <2>2. body = EmitVectorMemory(i)
    BY <1>1, <1>2, <1>3, <1>7, <2>1, NamedClasses1, NamedClasses2 DEF EmitBase
  <2>3. ScalarVectorCtl(i) = 24
    BY <1>1, <1>2, <1>5, ScalarLanes
  <2>4. n # "XCHG128"
    BY <1>1, <1>2, <1>3, NamedClasses2
  <2>5. FormOf(n) = "VectorLoad"
    BY <1>7
  <2> QED
    BY <1>1, <1>10, <2>2, <2>3, <2>4, <2>5 DEF EmitVectorMemory, Num
<1>13. MemEmits(bytes, i, is64, body, at, end, r, 2)
  <2>1. FormFor(n) \in MemoryForms
    BY <1>8 DEF MemoryForms
  <2> QED
    BY <1>1, <1>2, <1>9, <2>1 DEF MemEmits
<1>14. PICK h, more : MemoryRead(h, i, a, 2, TRUE, more, end, r)
  <2>1. FormFor(i.name) \notin ExtraByteForms
    BY <1>1, <1>8 DEF ExtraByteForms
  <2> QED
    BY <1>1, <1>3, <1>5, <1>8, <1>11, <1>12, <1>13, <2>1, VectorMemoryRead, Zenon
<1>15. /\ h.ok = TRUE /\ h.form = FormFor(n) /\ h.reg = a /\ (h.vector <=> TRUE)
       /\ GPR(h.rm) = i.ops[2] /\ GPR(h.index) = i.ops[3] /\ r = ReadMemory(h)
  BY <1>1, <1>14 DEF MemoryRead
<1>16. r = ReadLoad(h)
  BY <1>8, <1>15 DEF ReadMemory
<1>17. PICK b, x, f, d : AddressOf(h) = <<b, x, f, d>> /\ b = GPR(h.rm) /\ x = GPR(h.index)
                         /\ f = Imm(h.scale) /\ d = Imm(h.disp)
  BY DEF AddressOf
<1>18. PICK ops : ops = <<Vec(a), b, x, f, d>>
  BY Zenon
<1>19. r = Success(h, ops, h.at)
  <2>1. PICK reg : reg = RegisterOf(h)
    OBVIOUS
  <2>2. reg = Vec(a)
    BY <1>8, <1>15, <2>1 DEF RegisterOf
  <2>3. r = Success(h, <<reg>> \o AddressOf(h), h.at)
    BY <1>8, <1>10, <1>15, <1>16, <2>1 DEF ReadLoad
  <2>4. <<reg>> \o AddressOf(h) = ops
    BY <1>15, <1>17, <1>18, <2>2, OneThenAddress
  <2> QED
    BY <2>3, <2>4, Zenon
<1>20. MemoryOps(h, i, 2, ops)
  <2>1. Len(ops) = 5 /\ ops[1] = Vec(a) /\ ops[2] = b /\ ops[3] = x /\ ops[4] = f /\ ops[5] = d
    BY <1>18
  <2>2. ops[1] = i.ops[1]
    BY <1>9, <1>11, <2>1
  <2>3. \A k \in 1 .. 5 : k \notin {2, 2 + 1, 2 + 2, 2 + 3} => k = 1
    OBVIOUS
  <2>4. \A k \in 1 .. Len(i.ops) : k \notin {2, 2 + 1, 2 + 2, 2 + 3} => ops[k] = i.ops[k]
    BY <1>9, <2>2, <2>3
  <2>5. /\ ops[2] = GPR(h.rm) /\ ops[2 + 1] = GPR(h.index) /\ ops[2 + 2] = Imm(h.scale)
        /\ ops[2 + 3] = Imm(h.disp)
    BY <1>17, <2>1
  <2> QED
    BY <1>9, <2>1, <2>4, <2>5 DEF MemoryOps
<1> QED
  BY <1>14, <1>19, <1>20, SuccessMemory, Zenon

\* A vector store comes back.
LEMMA ReadsVectorStore ==
  ASSUME NEW bytes, NEW i, NEW source, NEW is64, NEW body, NEW at, NEW end, NEW r,
         Emits(bytes, i, source, is64, body, at, end, r),
         ClassOf(i.name) \in {"VectorStore"}
  PROVE SameMemory(r, i, 1, end, is64)
<1>1. PICK n, c, kinds : n = i.name /\ c = ClassOf(i.name) /\ kinds = OperandKinds[c]
  OBVIOUS
<1>2. /\ n \in DOMAIN Records /\ Filled(i, source) /\ is64 \in BOOLEAN /\ body = EmitBody(i, is64)
      /\ body.ok /\ bytes \in Seq(Byte) /\ Starts(bytes, i, is64, body.bytes, at, end, r)
  BY <1>1 DEF Emits, Starts
<1>3. c \in {"VectorStore"}
  BY <1>1
<1>4. kinds = <<"m", "v">>
  BY <1>1, <1>3, SMT DEF OperandKinds
<1>5. c \notin Tied /\ c # "CopyVV" /\ c \notin VariantClasses
  BY <1>3, SMT DEF Tied, VariantClasses
<1>6. Class[c][1] = 0 /\ Class[c][2] \in {"VectorStore"}
  BY <1>3, SMT DEF Class
<1>7. GroupOf(n) = 0 /\ FormOf(n) \in {"VectorStore"}
  BY <1>1, <1>6 DEF GroupOf, FormOf
<1>8. FormFor(n) \in {"VectorStore"}
  <2>1. DecodeForm[c] \in {"VectorStore"}
    BY <1>3, SMT DEF DecodeForm
  <2> QED
    BY <1>1, <1>2, <1>5, <1>6, <2>1, FormForClass
<1>9. Len(i.ops) = 5
      /\ HoldsKind("m", i.ops, 1)
      /\ HoldsKind("v", i.ops, 5)
  <2>1. Fills(i.ops, source, kinds, 0)
    BY <1>1, <1>2, <1>5 DEF Filled
  <2> QED
    BY <1>4, <2>1 DEF Fills, Place, Size
<1>10. PICK a : a = i.ops[5][2]
  OBVIOUS
<1>11. /\ i.ops[5] = Vec(a) /\ a \in 0 .. 31
  BY <1>9, <1>10, RegisterKind, VectorKind
<1>12. body = MemForm(64, OpcodeBytes(i), a, Mem(i, 1), <<24>>)
  <2>1. body = EmitBase(i, is64)
    BY <1>1, <1>2, <1>7 DEF EmitBody
  <2>2. body = EmitVectorMemory(i)
    BY <1>1, <1>2, <1>3, <1>7, <2>1, NamedClasses1, NamedClasses2 DEF EmitBase
  <2>3. ScalarVectorCtl(i) = 24
    BY <1>1, <1>2, <1>5, ScalarLanes
  <2>4. n # "XCHG128"
    BY <1>1, <1>2, <1>3, NamedClasses2
  <2>5. FormOf(n) # "VectorLoad"
    BY <1>7
  <2> QED
    BY <1>1, <1>10, <2>2, <2>3, <2>4, <2>5 DEF EmitVectorMemory, Num
<1>13. MemEmits(bytes, i, is64, body, at, end, r, 1)
  <2>1. FormFor(n) \in MemoryForms
    BY <1>8 DEF MemoryForms
  <2> QED
    BY <1>1, <1>2, <1>9, <2>1 DEF MemEmits
<1>14. PICK h, more : MemoryRead(h, i, a, 1, TRUE, more, end, r)
  <2>1. FormFor(i.name) \notin ExtraByteForms
    BY <1>1, <1>8 DEF ExtraByteForms
  <2> QED
    BY <1>1, <1>3, <1>5, <1>8, <1>11, <1>12, <1>13, <2>1, VectorMemoryRead, Zenon
<1>15. /\ h.ok = TRUE /\ h.form = FormFor(n) /\ h.reg = a /\ (h.vector <=> TRUE)
       /\ GPR(h.rm) = i.ops[1] /\ GPR(h.index) = i.ops[2] /\ r = ReadMemory(h)
  BY <1>1, <1>14 DEF MemoryRead
<1>16. r = ReadStore(h)
  BY <1>8, <1>15 DEF ReadMemory
<1>17. PICK b, x, f, d : AddressOf(h) = <<b, x, f, d>> /\ b = GPR(h.rm) /\ x = GPR(h.index)
                         /\ f = Imm(h.scale) /\ d = Imm(h.disp)
  BY DEF AddressOf
<1>18. PICK ops : ops = <<b, x, f, d, Vec(a)>>
  BY Zenon
<1>19. r = Success(h, ops, h.at)
  <2>1. PICK reg : reg = RegisterOf(h)
    OBVIOUS
  <2>2. reg = Vec(a)
    BY <1>8, <1>15, <2>1 DEF RegisterOf
  <2>3. r = Success(h, AddressOf(h) \o <<reg>>, h.at)
    BY <1>8, <1>10, <1>15, <1>16, <2>1 DEF ReadStore
  <2>4. AddressOf(h) \o <<reg>> = ops
    BY <1>15, <1>17, <1>18, <2>2, AddressThenOne
  <2> QED
    BY <2>3, <2>4, Zenon
<1>20. MemoryOps(h, i, 1, ops)
  <2>1. Len(ops) = 5 /\ ops[1] = b /\ ops[2] = x /\ ops[3] = f /\ ops[4] = d /\ ops[5] = Vec(a)
    BY <1>18
  <2>2. ops[5] = i.ops[5]
    BY <1>9, <1>11, <2>1
  <2>3. \A k \in 1 .. 5 : k \notin {1, 1 + 1, 1 + 2, 1 + 3} => k = 5
    OBVIOUS
  <2>4. \A k \in 1 .. Len(i.ops) : k \notin {1, 1 + 1, 1 + 2, 1 + 3} => ops[k] = i.ops[k]
    BY <1>9, <2>2, <2>3
  <2>5. /\ ops[1] = GPR(h.rm) /\ ops[1 + 1] = GPR(h.index) /\ ops[1 + 2] = Imm(h.scale)
        /\ ops[1 + 3] = Imm(h.disp)
    BY <1>17, <2>1
  <2> QED
    BY <1>9, <2>1, <2>4, <2>5 DEF MemoryOps
<1> QED
  BY <1>14, <1>19, <1>20, SuccessMemory, Zenon

-----------------------------------------------------------------------------
(* Every instruction comes back: the classes together.                     *)
\* Where the address of an instruction stands among its operands.
AddressPlace(n, m) ==
  \E j \in 1 .. Len(OperandKinds[ClassOf(n)]) :
    /\ OperandKinds[ClassOf(n)][j] = "m"
    /\ m = (IF ClassOf(n) \in Tied THEN 1 ELSE 0) + 1 + Place(OperandKinds[ClassOf(n)], j)

\* What was read is the instruction that was written, its address included.
ReadBack(r, i, end, is64) ==
  SameAs(r, i, end, is64) \/ \E m \in 1 .. 4 : AddressPlace(i.name, m) /\ SameMemory(r, i, m, end, is64)

\* The classes without an address, and those with one by the place of it.
PlainClasses ==
  {"TernaryByte", "IndirectCall", "IndirectBranch", "TxnBeginAbs",
   "CryptoUnary", "CryptoBinary", "ReadControl", "WriteControl", "IntToFP", "DSPDot",
   "FrameImm", "SleepImm", "UnaryInPlace", "PairLoad", "TernaryRI", "PushReg", "PopReg",
   "TxnAbortReg", "ReadReg", "TxnReadReg", "CopyRR", "CompareRR", "UnaryRR", "FPToInt",
   "FPXFused", "FPXUnary", "FPXBinary", "SysXReadImm", "SysXWriteImm", "DSPRegImm", "DSPUnary",
   "DSPQuaternary", "DSPPairOut", "DSPTernary", "DSPSumDot", "SysXReg", "SysXReadReg",
   "SysXQuery", "SysXPair", "SysXTernary", "ALURR", "CarryALURR", "TrapImm", "TxnAbortImm",
   "SysXImm", "TernaryRR", "StringCopy", "StringFill", "AVXRegImm", "AVXBinary", "CopyVV",
   "FPUnary", "FPCompare", "VUnary", "VShiftImm", "AVXUnary", "FPBinary", "VBinary",
   "AVXBinaryImm", "NoOperand", "SystemNoOperand", "TxnNoOperand", "Return", "AVXNoOperand",
   "SysXNoOperand", "WindowTransition"}
AddressFirst == {"MemoryOnly", "PairStore", "FPXStore", "AVXScatter", "StoreQ", "SysXMemory",
   "SysXMaskedMemory", "SysXStoreMemory", "VectorStore"}
AddressSecond == {"AtomicLoad", "AVXGather", "LoadQ", "AddressCalc", "FPXLoad", "VectorLoad"}
AddressThird == {"AtomicMem", "AtomicExchange", "AtomicExchange128"}
AddressFourth == {"AtomicCAS"}

\* The address is operand 1 of these classes.
LEMMA AddressAtFirst ==
  ASSUME NEW n, ClassOf(n) \in AddressFirst
  PROVE AddressPlace(n, 1)
<1>1. PICK c, kinds : c = ClassOf(n) /\ kinds = OperandKinds[c]
  OBVIOUS
<1>2. CASE c \in {"MemoryOnly", "SysXMemory"}
  <2>1. kinds = <<"m">>
    BY <1>1, <1>2, SMT DEF OperandKinds
  <2>2. c \notin Tied
    BY <1>2, SMT DEF Tied
  <2>3. 1 \in 1 .. Len(kinds) /\ kinds[1] = "m" /\ Place(kinds, 1) = 0
    BY <2>1 DEF Place, Size
  <2> QED
    BY <1>1, <2>2, <2>3 DEF AddressPlace
<1>3. CASE c \in {"PairStore"}
  <2>1. kinds = <<"m", "r", "r">>
    BY <1>1, <1>3, SMT DEF OperandKinds
  <2>2. c \notin Tied
    BY <1>3, SMT DEF Tied
  <2>3. 1 \in 1 .. Len(kinds) /\ kinds[1] = "m" /\ Place(kinds, 1) = 0
    BY <2>1 DEF Place, Size
  <2> QED
    BY <1>1, <2>2, <2>3 DEF AddressPlace
<1>4. CASE c \in {"FPXStore", "VectorStore"}
  <2>1. kinds = <<"m", "v">>
    BY <1>1, <1>4, SMT DEF OperandKinds
  <2>2. c \notin Tied
    BY <1>4, SMT DEF Tied
  <2>3. 1 \in 1 .. Len(kinds) /\ kinds[1] = "m" /\ Place(kinds, 1) = 0
    BY <2>1 DEF Place, Size
  <2> QED
    BY <1>1, <2>2, <2>3 DEF AddressPlace
<1>5. CASE c \in {"AVXScatter"}
  <2>1. kinds = <<"m", "v", "i">>
    BY <1>1, <1>5, SMT DEF OperandKinds
  <2>2. c \notin Tied
    BY <1>5, SMT DEF Tied
  <2>3. 1 \in 1 .. Len(kinds) /\ kinds[1] = "m" /\ Place(kinds, 1) = 0
    BY <2>1 DEF Place, Size
  <2> QED
    BY <1>1, <2>2, <2>3 DEF AddressPlace
<1>6. CASE c \in {"StoreQ", "SysXMaskedMemory", "SysXStoreMemory"}
  <2>1. kinds = <<"m", "r">>
    BY <1>1, <1>6, SMT DEF OperandKinds
  <2>2. c \notin Tied
    BY <1>6, SMT DEF Tied
  <2>3. 1 \in 1 .. Len(kinds) /\ kinds[1] = "m" /\ Place(kinds, 1) = 0
    BY <2>1 DEF Place, Size
  <2> QED
    BY <1>1, <2>2, <2>3 DEF AddressPlace
<1> QED
  BY <1>1, <1>2, <1>3, <1>4, <1>5, <1>6 DEF AddressFirst

\* The address is operand 2 of these classes.
LEMMA AddressAtSecond ==
  ASSUME NEW n, ClassOf(n) \in AddressSecond
  PROVE AddressPlace(n, 2)
<1>1. PICK c, kinds : c = ClassOf(n) /\ kinds = OperandKinds[c]
  OBVIOUS
<1>2. CASE c \in {"AtomicLoad", "LoadQ", "AddressCalc"}
  <2>1. kinds = <<"r", "m">>
    BY <1>1, <1>2, SMT DEF OperandKinds
  <2>2. c \notin Tied
    BY <1>2, SMT DEF Tied
  <2>3. 2 \in 1 .. Len(kinds) /\ kinds[2] = "m" /\ Place(kinds, 2) = 1
    BY <2>1 DEF Place, Size
  <2> QED
    BY <1>1, <2>2, <2>3 DEF AddressPlace
<1>3. CASE c \in {"AVXGather"}
  <2>1. kinds = <<"v", "m", "i">>
    BY <1>1, <1>3, SMT DEF OperandKinds
  <2>2. c \notin Tied
    BY <1>3, SMT DEF Tied
  <2>3. 2 \in 1 .. Len(kinds) /\ kinds[2] = "m" /\ Place(kinds, 2) = 1
    BY <2>1 DEF Place, Size
  <2> QED
    BY <1>1, <2>2, <2>3 DEF AddressPlace
<1>4. CASE c \in {"FPXLoad", "VectorLoad"}
  <2>1. kinds = <<"v", "m">>
    BY <1>1, <1>4, SMT DEF OperandKinds
  <2>2. c \notin Tied
    BY <1>4, SMT DEF Tied
  <2>3. 2 \in 1 .. Len(kinds) /\ kinds[2] = "m" /\ Place(kinds, 2) = 1
    BY <2>1 DEF Place, Size
  <2> QED
    BY <1>1, <2>2, <2>3 DEF AddressPlace
<1> QED
  BY <1>1, <1>2, <1>3, <1>4 DEF AddressSecond

\* The address is operand 3 of these classes.
LEMMA AddressAtThird ==
  ASSUME NEW n, ClassOf(n) \in AddressThird
  PROVE AddressPlace(n, 3)
<1>1. PICK c, kinds : c = ClassOf(n) /\ kinds = OperandKinds[c]
  OBVIOUS
<1>2. CASE c \in {"AtomicMem", "AtomicExchange"}
  <2>1. kinds = <<"r", "m">>
    BY <1>1, <1>2, SMT DEF OperandKinds
  <2>2. c \in Tied
    BY <1>2, SMT DEF Tied
  <2>3. 2 \in 1 .. Len(kinds) /\ kinds[2] = "m" /\ Place(kinds, 2) = 1
    BY <2>1 DEF Place, Size
  <2> QED
    BY <1>1, <2>2, <2>3 DEF AddressPlace
<1>3. CASE c \in {"AtomicExchange128"}
  <2>1. kinds = <<"v", "m">>
    BY <1>1, <1>3, SMT DEF OperandKinds
  <2>2. c \in Tied
    BY <1>3, SMT DEF Tied
  <2>3. 2 \in 1 .. Len(kinds) /\ kinds[2] = "m" /\ Place(kinds, 2) = 1
    BY <2>1 DEF Place, Size
  <2> QED
    BY <1>1, <2>2, <2>3 DEF AddressPlace
<1> QED
  BY <1>1, <1>2, <1>3 DEF AddressThird

\* The address is operand 4 of these classes.
LEMMA AddressAtFourth ==
  ASSUME NEW n, ClassOf(n) \in AddressFourth
  PROVE AddressPlace(n, 4)
<1>1. PICK c, kinds : c = ClassOf(n) /\ kinds = OperandKinds[c]
  OBVIOUS
<1>2. CASE c \in {"AtomicCAS"}
  <2>1. kinds = <<"r", "r", "m">>
    BY <1>1, <1>2, SMT DEF OperandKinds
  <2>2. c \in Tied
    BY <1>2, SMT DEF Tied
  <2>3. 3 \in 1 .. Len(kinds) /\ kinds[3] = "m" /\ Place(kinds, 3) = 2
    BY <2>1 DEF Place, Size
  <2> QED
    BY <1>1, <2>2, <2>3 DEF AddressPlace
<1> QED
  BY <1>1, <1>2 DEF AddressFourth

\* An instruction without an address comes back.
LEMMA ReadsPlain ==
  ASSUME NEW bytes, NEW i, NEW source, NEW is64, NEW body, NEW at, NEW end, NEW r,
         Emits(bytes, i, source, is64, body, at, end, r), ClassOf(i.name) \in PlainClasses
  PROVE SameAs(r, i, end, is64)
<1>1. PICK c : c = ClassOf(i.name)
  OBVIOUS
<1>2. CASE c \in {"TernaryByte"}
  BY <1>1, <1>2, ReadsByteNumber
<1>3. CASE c \in {"IndirectCall", "IndirectBranch", "TxnBeginAbs"}
  BY <1>1, <1>3, ReadsCall
<1>4. CASE c \in {"CryptoUnary"}
  BY <1>1, <1>4, ReadsCipherPair
<1>5. CASE c \in {"CryptoBinary"}
  BY <1>1, <1>5, ReadsCipherTriple
<1>6. CASE c \in {"ReadControl"}
  BY <1>1, <1>6, ReadsControlRead
<1>7. CASE c \in {"WriteControl"}
  BY <1>1, <1>7, ReadsControlWrite
<1>8. CASE c \in {"IntToFP"}
  BY <1>1, <1>8, ReadsConversion
<1>9. CASE c \in {"DSPDot"}
  BY <1>1, <1>9, ReadsDot
<1>10. CASE c \in {"FrameImm", "SleepImm"}
  BY <1>1, <1>10, ReadsFrame
<1>11. CASE c \in {"UnaryInPlace"}
  BY <1>1, <1>11, ReadsInPlace
<1>12. CASE c \in {"PairLoad"}
  BY <1>1, <1>12, ReadsLoadPair
<1>13. CASE c \in {"TernaryRI"}
  BY <1>1, <1>13, ReadsNumber
<1>14. CASE c \in {"PushReg", "PopReg", "TxnAbortReg", "ReadReg", "TxnReadReg"}
  BY <1>1, <1>14, ReadsOne
<1>15. CASE c \in {"CopyRR", "CompareRR", "UnaryRR"}
  BY <1>1, <1>15, ReadsPair
<1>16. CASE c \in {"FPToInt"}
  BY <1>1, <1>16, ReadsRounding
<1>17. CASE c \in {"FPXFused"}
  BY <1>1, <1>17, ReadsScalarFused
<1>18. CASE c \in {"FPXUnary"}
  BY <1>1, <1>18, ReadsScalarPair
<1>19. CASE c \in {"FPXBinary"}
  BY <1>1, <1>19, ReadsScalarTriple
<1>20. CASE c \in {"SysXReadImm"}
  BY <1>1, <1>20, ReadsSelectorRead
<1>21. CASE c \in {"SysXWriteImm"}
  BY <1>1, <1>21, ReadsSelectorWrite
<1>22. CASE c \in {"DSPRegImm"}
  BY <1>1, <1>22, ReadsSignalByte
<1>23. CASE c \in {"DSPUnary"}
  BY <1>1, <1>23, ReadsSignalPair
<1>24. CASE c \in {"DSPQuaternary", "DSPPairOut"}
  BY <1>1, <1>24, ReadsSignalQuadruple
<1>25. CASE c \in {"DSPTernary"}
  BY <1>1, <1>25, ReadsSignalTriple
<1>26. CASE c \in {"DSPSumDot"}
  BY <1>1, <1>26, ReadsSumDot
<1>27. CASE c \in {"SysXReg", "SysXReadReg"}
  BY <1>1, <1>27, ReadsSystemOne
<1>28. CASE c \in {"SysXQuery", "SysXPair"}
  BY <1>1, <1>28, ReadsSystemPair
<1>29. CASE c \in {"SysXTernary"}
  BY <1>1, <1>29, ReadsSystemTriple
<1>30. CASE c \in {"ALURR", "CarryALURR"}
  BY <1>1, <1>30, ReadsTiedPair
<1>31. CASE c \in {"TrapImm", "TxnAbortImm", "SysXImm"}
  BY <1>1, <1>31, ReadsTrap
<1>32. CASE c \in {"TernaryRR", "StringCopy", "StringFill"}
  BY <1>1, <1>32, ReadsTriple
<1>33. CASE c \in {"AVXRegImm"}
  BY <1>1, <1>33, ReadsVectorByte
<1>34. CASE c \in {"AVXBinary"}
  BY <1>1, <1>34, ReadsVectorFused
<1>35. CASE c \in {"CopyVV", "FPUnary", "FPCompare", "VUnary"}
  BY <1>1, <1>35, ReadsVectorPair
<1>36. CASE c \in {"VShiftImm"}
  BY <1>1, <1>36, ReadsVectorShift
<1>37. CASE c \in {"AVXUnary"}
  BY <1>1, <1>37, ReadsVectorTest
<1>38. CASE c \in {"FPBinary", "VBinary"}
  BY <1>1, <1>38, ReadsVectorTriple
<1>39. CASE c \in {"AVXBinaryImm"}
  BY <1>1, <1>39, ReadsVectorTripleByte
<1>40. CASE c \in {"NoOperand", "SystemNoOperand", "TxnNoOperand", "Return", "AVXNoOperand",
              "SysXNoOperand", "WindowTransition"}
  BY <1>1, <1>40, ReadsNothing
<1> QED
  BY <1>1, <1>2, <1>3, <1>4, <1>5, <1>6, <1>7, <1>8, <1>9, <1>10, <1>11, <1>12, <1>13, <1>14,
     <1>15, <1>16, <1>17, <1>18, <1>19, <1>20, <1>21, <1>22, <1>23, <1>24, <1>25, <1>26, <1>27,
     <1>28, <1>29, <1>30, <1>31, <1>32, <1>33, <1>34, <1>35, <1>36, <1>37, <1>38, <1>39, <1>40 DEF PlainClasses

\* An instruction comes back that has an address as operand 1.
LEMMA ReadsAddressFirst ==
  ASSUME NEW bytes, NEW i, NEW source, NEW is64, NEW body, NEW at, NEW end, NEW r,
         Emits(bytes, i, source, is64, body, at, end, r), ClassOf(i.name) \in AddressFirst
  PROVE SameMemory(r, i, 1, end, is64)
<1>1. PICK c : c = ClassOf(i.name)
  OBVIOUS
<1>2. CASE c \in {"MemoryOnly"}
  BY <1>1, <1>2, ReadsAddressOnly
<1>3. CASE c \in {"PairStore"}
  BY <1>1, <1>3, ReadsPairStore
<1>4. CASE c \in {"FPXStore"}
  BY <1>1, <1>4, ReadsScalarStore
<1>5. CASE c \in {"AVXScatter"}
  BY <1>1, <1>5, ReadsScatter
<1>6. CASE c \in {"StoreQ"}
  BY <1>1, <1>6, ReadsStore
<1>7. CASE c \in {"SysXMemory"}
  BY <1>1, <1>7, ReadsSystemAddress
<1>8. CASE c \in {"SysXMaskedMemory", "SysXStoreMemory"}
  BY <1>1, <1>8, ReadsSystemStore
<1>9. CASE c \in {"VectorStore"}
  BY <1>1, <1>9, ReadsVectorStore
<1> QED
  BY <1>1, <1>2, <1>3, <1>4, <1>5, <1>6, <1>7, <1>8, <1>9 DEF AddressFirst

\* An instruction comes back that has an address as operand 2.
LEMMA ReadsAddressSecond ==
  ASSUME NEW bytes, NEW i, NEW source, NEW is64, NEW body, NEW at, NEW end, NEW r,
         Emits(bytes, i, source, is64, body, at, end, r), ClassOf(i.name) \in AddressSecond
  PROVE SameMemory(r, i, 2, end, is64)
<1>1. PICK c : c = ClassOf(i.name)
  OBVIOUS
<1>2. CASE c \in {"AtomicLoad"}
  BY <1>1, <1>2, ReadsAtomicLoad
<1>3. CASE c \in {"AVXGather"}
  BY <1>1, <1>3, ReadsGather
<1>4. CASE c \in {"LoadQ", "AddressCalc"}
  BY <1>1, <1>4, ReadsLoad
<1>5. CASE c \in {"FPXLoad"}
  BY <1>1, <1>5, ReadsScalarLoad
<1>6. CASE c \in {"VectorLoad"}
  BY <1>1, <1>6, ReadsVectorLoad
<1> QED
  BY <1>1, <1>2, <1>3, <1>4, <1>5, <1>6 DEF AddressSecond

\* An instruction comes back that has an address as operand 3.
LEMMA ReadsAddressThird ==
  ASSUME NEW bytes, NEW i, NEW source, NEW is64, NEW body, NEW at, NEW end, NEW r,
         Emits(bytes, i, source, is64, body, at, end, r), ClassOf(i.name) \in AddressThird
  PROVE SameMemory(r, i, 3, end, is64)
<1>1. PICK c : c = ClassOf(i.name)
  OBVIOUS
<1>2. CASE c \in {"AtomicMem", "AtomicExchange"}
  BY <1>1, <1>2, ReadsAtomic
<1>3. CASE c \in {"AtomicExchange128"}
  BY <1>1, <1>3, ReadsVectorExchange
<1> QED
  BY <1>1, <1>2, <1>3 DEF AddressThird

\* An instruction comes back that has an address as operand 4.
LEMMA ReadsAddressFourth ==
  ASSUME NEW bytes, NEW i, NEW source, NEW is64, NEW body, NEW at, NEW end, NEW r,
         Emits(bytes, i, source, is64, body, at, end, r), ClassOf(i.name) \in AddressFourth
  PROVE SameMemory(r, i, 4, end, is64)
<1>1. PICK c : c = ClassOf(i.name)
  OBVIOUS
<1>2. CASE c \in {"AtomicCAS"}
  BY <1>1, <1>2, ReadsExchange
<1> QED
  BY <1>1, <1>2 DEF AddressFourth

\* The classes are those that may name a label and the others.
LEMMA EveryClass ==
  DOMAIN Class \subseteq BranchClasses \cup AddressClasses \cup PlainClasses
     \cup AddressFirst \cup AddressSecond \cup AddressThird \cup AddressFourth
BY SMTT(60) DEF Class, BranchClasses, AddressClasses, PlainClasses, AddressFirst, AddressSecond,
       AddressThird, AddressFourth

\* An instruction that cannot name a label comes back.
LEMMA ReadsEmitted ==
  ASSUME NEW bytes, NEW i, NEW source, NEW is64, NEW body, NEW at, NEW end, NEW r,
         Emits(bytes, i, source, is64, body, at, end, r),
         ClassOf(i.name) \notin BranchClasses \cup AddressClasses
  PROVE ReadBack(r, i, end, is64)
<1>1. ClassOf(i.name) \in DOMAIN Class
  <2>1. i.name \in DOMAIN Records
    BY DEF Emits, Starts
  <2> QED
    BY <2>1, RecordRange
<1>2. CASE ClassOf(i.name) \in PlainClasses
  BY <1>2, ReadsPlain DEF ReadBack
<1>3. CASE ClassOf(i.name) \in AddressFirst
  BY <1>3, ReadsAddressFirst, AddressAtFirst DEF ReadBack
<1>4. CASE ClassOf(i.name) \in AddressSecond
  BY <1>4, ReadsAddressSecond, AddressAtSecond DEF ReadBack
<1>5. CASE ClassOf(i.name) \in AddressThird
  BY <1>5, ReadsAddressThird, AddressAtThird DEF ReadBack
<1>6. CASE ClassOf(i.name) \in AddressFourth
  BY <1>6, ReadsAddressFourth, AddressAtFourth DEF ReadBack
<1> QED
  BY <1>1, <1>2, <1>3, <1>4, <1>5, <1>6, EveryClass

-----------------------------------------------------------------------------
(* Instructions that may name a label.                                     *)
\* How wide the field of a label or an address is, and whether a field holds the operand.
ValueWidth(i, is64) == IF ClassOf(i.name) \in BranchClasses \/ ~is64 THEN 4 ELSE 8

FieldAgrees(i, bytes, field, is64) ==
  IF ClassOf(i.name) \in BranchClasses
    THEN Agrees(LastOp(i), Imm(Signed32(bytes, field)), is64)
    ELSE \A high : Agrees(LastOp(i), ReadAddress(bytes, field, is64, high), is64)

\* An instruction of a branch or an address comes back with what its field holds.
LEMMA ReadsField ==
  ASSUME NEW bytes, NEW i, NEW source, Filled(i, source), NEW is64, NEW at, NEW field, NEW r,
         Starts(bytes, i, is64, LeadBytes(i), at, field, r),
         ClassOf(i.name) \in BranchClasses \cup AddressClasses,
         Holds(bytes, field, ValueWidth(i, is64)), FieldAgrees(i, bytes, field, is64)
  PROVE SameAs(r, i, field + ValueWidth(i, is64), is64)
<1>1. PICK c, s : c = ClassOf(i.name) /\ s = LeadBytes(i)
  OBVIOUS
<1>2. Starts(bytes, i, is64, s, at, field, r) /\ is64 \in BOOLEAN
  BY <1>1 DEF Starts
<1>3. CASE c \in {"UncondBranch", "CondBranch", "Call", "TxnBeginRel"}
  <2>1. FormOf(i.name) = "BranchRel32"
    BY <1>1, <1>3, LabelClassSizes DEF FormOf
  <2>2. s = OpcodeBytes(i)
    BY <1>1, <2>1 DEF LeadBytes
  <2>3. ValueWidth(i, is64) = 4 /\ c \in BranchClasses
    BY <1>1, <1>3 DEF ValueWidth, BranchClasses
  <2>4. LastOp(i) = i.ops[1]
    BY <1>1, <1>3, ValueShape DEF LastOp
  <2>5. Agrees(i.ops[1], Imm(Signed32(bytes, field)), is64) /\ Holds(bytes, field, 4)
    BY <1>1, <2>3, <2>4 DEF FieldAgrees
  <2> QED
    BY <1>1, <1>2, <1>3, <2>2, <2>3, <2>5, ReadsBranch
<1>4. CASE c = "RegCondBranch"
  <2>1. FormOf(i.name) # "BranchRel32"
    BY <1>1, <1>4, LabelClassSizes DEF FormOf
  <2>2. s = RegForm(0, OpcodeBytes(i), 0, Num(i, 1), <<>>)
    BY <1>1, <2>1 DEF LeadBytes
  <2>3. ValueWidth(i, is64) = 4 /\ c \in BranchClasses
    BY <1>1, <1>4 DEF ValueWidth, BranchClasses
  <2>4. LastOp(i) = i.ops[2]
    BY <1>1, <1>4, RegValueShape DEF LastOp
  <2>5. Agrees(i.ops[2], Imm(Signed32(bytes, field)), is64) /\ Holds(bytes, field, 4)
    BY <1>1, <2>3, <2>4 DEF FieldAgrees
  <2> QED
    BY <1>1, <1>2, <1>4, <2>2, <2>3, <2>5, ReadsRegBranch
<1>5. CASE c \in AddressClasses
  <2>1. FormOf(i.name) # "BranchRel32"
    BY <1>1, <1>5, LabelClassSizes DEF FormOf, AddressClasses
  <2>2. s = RegForm(0, OpcodeBytes(i), 0, Num(i, 1), <<>>)
    BY <1>1, <2>1 DEF LeadBytes
  <2>3. c \notin BranchClasses
    BY <1>5 DEF BranchClasses, AddressClasses
  <2>4. ValueWidth(i, is64) = AddressWidth(is64)
    BY <1>1, <2>3 DEF ValueWidth, AddressWidth
  <2>5. /\ \A high : Agrees(LastOp(i), ReadAddress(bytes, field, is64, high), is64)
        /\ Holds(bytes, field, AddressWidth(is64))
    BY <1>1, <2>3, <2>4 DEF FieldAgrees
  <2>6. CASE c = "ALURI"
    <3>1. LastOp(i) = i.ops[3]
      BY <1>1, <2>6, RegValueTiedShape DEF LastOp
    <3>2. \A high : Agrees(i.ops[3], ReadAddress(bytes, field, is64, high), is64)
      BY <2>5, <3>1
    <3> QED
      BY <1>1, <1>2, <2>2, <2>4, <2>5, <2>6, <3>2, ReadsTiedNumber
  <2>7. CASE c \in {"RI64", "CompareRI"}
    <3>1. LastOp(i) = i.ops[2]
      BY <1>1, <2>7, RegValueShape DEF LastOp
    <3>2. \A high : Agrees(i.ops[2], ReadAddress(bytes, field, is64, high), is64)
      BY <2>5, <3>1
    <3> QED
      BY <1>1, <1>2, <2>2, <2>4, <2>5, <2>7, <3>2, ReadsRegNumber
  <2> QED
    BY <1>5, <2>6, <2>7 DEF AddressClasses
<1> QED
  BY <1>1, <1>3, <1>4, <1>5 DEF BranchClasses

\* The last operand of a branch or of an instruction with an address-wide immediate.
LEMMA LastValue ==
  ASSUME NEW i, i.name \in DOMAIN Records, NEW source, Filled(i, source),
         ClassOf(i.name) \in BranchClasses \cup AddressClasses
  PROVE /\ HoldsKind("i", i.ops, Len(i.ops))
        /\ FormOf(i.name) # "BranchRel32" => HoldsReg(i.ops, 1)
        /\ \E n \in DOMAIN source : n = Len(OperandKinds[ClassOf(i.name)]) /\ LastOp(i) = source[n]
<1>1. PICK c, kinds, tied, ops : /\ c = ClassOf(i.name) /\ kinds = OperandKinds[c] /\ ops = i.ops
                                 /\ tied = (IF c \in Tied THEN 1 ELSE 0)
  OBVIOUS
<1>2. Fills(ops, source, kinds, tied)
  BY <1>1 DEF Filled
<1>3. CASE c \in {"UncondBranch", "CondBranch", "Call", "TxnBeginRel"}
  <2>1. kinds = <<"i">>
    BY <1>1, <1>3, SMT DEF OperandKinds
  <2>2. tied = 0
    BY <1>1, <1>3, SMT DEF Tied
  <2>3. FormOf(i.name) = "BranchRel32"
    BY <1>1, <1>3, LabelClassSizes DEF FormOf
  <2>4. Len(ops) = 1 /\ HoldsKind("i", ops, 1) /\ ops[1] = source[1] /\ 1 \in DOMAIN source
    BY <1>2, <2>1, <2>2 DEF Fills, Place, Size
  <2>5. Len(kinds) = 1
    BY <2>1
  <2> QED
    BY <1>1, <2>3, <2>4, <2>5 DEF LastOp
<1>4. CASE c \in {"RegCondBranch", "RI64", "CompareRI", "ALURI"}
  <2>1. kinds = <<"r", "i">>
    BY <1>1, <1>4, SMT DEF OperandKinds
  <2>2. tied \in {0, 1} /\ Len(kinds) = 2 /\ kinds[1] = "r" /\ kinds[2] = "i"
    BY <1>1, <2>1
  <2>3. Place(kinds, 1) = 0 /\ Place(kinds, 2) = 1 /\ Place(kinds, 3) = 2
    BY <2>2 DEF Place, Size
  <2>4. Len(ops) = tied + 2 /\ HoldsKind("r", ops, tied + 1) /\ HoldsKind("i", ops, tied + 2)
          /\ ops[tied + 2] = source[2] /\ 2 \in DOMAIN source /\ (tied = 1 => HoldsReg(ops, 1))
    <3>1. /\ Len(ops) = tied + Place(kinds, 3) /\ DOMAIN source = 1 .. 2
          /\ tied = 1 => HoldsReg(ops, 1)
          /\ \A k \in 1 .. 2 : /\ HoldsKind(kinds[k], ops, tied + 1 + Place(kinds, k))
                               /\ kinds[k] = "i" => ops[tied + 1 + Place(kinds, k)] = source[k]
      BY <1>2, <2>2 DEF Fills
    <3>2. tied + 1 + Place(kinds, 1) = tied + 1 /\ tied + 1 + Place(kinds, 2) = tied + 2
      BY <2>2, <2>3
    <3>3. HoldsKind(kinds[1], ops, tied + 1) /\ HoldsKind(kinds[2], ops, tied + 2)
            /\ ops[tied + 2] = source[2]
      <4>1. 1 \in 1 .. 2 /\ 2 \in 1 .. 2
        OBVIOUS
      <4> QED
        BY <2>2, <3>1, <3>2, <4>1
    <3> QED
      BY <2>2, <2>3, <3>1, <3>3
  <2>5. HoldsReg(ops, 1)
    <3>1. CASE tied = 0
      BY <2>4, <3>1 DEF HoldsKind
    <3> QED
      BY <2>2, <2>4, <3>1
  <2> QED
    BY <1>1, <2>2, <2>4, <2>5 DEF LastOp
<1> QED
  BY <1>1, <1>3, <1>4 DEF BranchClasses, AddressClasses

\* The bytes of a number in the field at the end of a branch or after a register.
FieldNumber(i, tail, is64) ==
  LET op == LastOp(i)
  IN /\ op[2] \in Word32 /\ op[3] \in Word32 /\ op = Wide(op[2], op[3])
     /\ IF ClassOf(i.name) \in BranchClasses
          THEN op = Imm(op[2]) /\ tail = LittleEndian(op[2], 4)
          ELSE tail = AddressBytes(op, is64)

\* With a number, an instruction that may name a label is its opening and the number.
LEMMA NumberBody ==
  ASSUME NEW i, i.name \in DOMAIN Records, NEW source, Filled(i, source), NEW is64 \in BOOLEAN,
         ClassOf(i.name) \in BranchClasses \cup AddressClasses, IsImm(LastOp(i)),
         NEW body, body = EmitBody(i, is64), body.ok
  PROVE \E tail : FieldNumber(i, tail, is64) /\ body.bytes = LeadBytes(i) \o tail
<1>1. PICK c, op : c = ClassOf(i.name) /\ op = LastOp(i)
  OBVIOUS
<1>2. op = Wide(op[2], op[3]) /\ op[2] \in Word32 /\ op[3] \in Word32
  <2>1. PICK ops, k : ops = i.ops /\ k = Len(i.ops)
    OBVIOUS
  <2>2. HoldsKind("i", ops, k)
    BY <2>1, LastValue
  <2>3. op = ops[k] /\ IsImm(ops[k])
    BY <1>1, <2>1 DEF LastOp
  <2> QED
    BY <2>2, <2>3, ImmediateKind
<1>3. Class[c][1] = 0 /\ FormOf(i.name) = Class[c][2] /\ body = EmitBase(i, is64)
  BY <1>1, LabelClassSizes DEF BranchClasses, AddressClasses, FormOf, GroupOf, EmitBody
<1>4. CASE c \in BranchClasses
  <2>1. body = Rel32(LeadBytes(i), op)
    <3>1. CASE c = "RegCondBranch"
      <4>1. FormOf(i.name) = "RegCondBranch"
        BY <1>3, <3>1, LabelClassSizes
      <4>2. op = i.ops[2]
        BY <1>1, <3>1, RegValueShape DEF LastOp
      <4>3. LeadBytes(i) = RegForm(0, OpcodeBytes(i), 0, Num(i, 1), <<>>)
        BY <4>1 DEF LeadBytes
      <4> QED
        BY <1>3, <4>1, <4>2, <4>3 DEF EmitBase, EmitRegCondBranch
    <3>2. CASE c \in {"UncondBranch", "CondBranch", "Call", "TxnBeginRel"}
      <4>1. FormOf(i.name) = "BranchRel32"
        BY <1>3, <3>2, LabelClassSizes
      <4>2. op = i.ops[1]
        BY <1>1, <3>2, ValueShape DEF LastOp
      <4>3. LeadBytes(i) = OpcodeBytes(i)
        BY <4>1 DEF LeadBytes
      <4> QED
        BY <1>3, <4>1, <4>2, <4>3 DEF EmitBase, EmitBranchRel32
    <3> QED
      BY <1>4, <3>1, <3>2 DEF BranchClasses
  <2>2. PICK fits, tail, lead : fits = SInt32(op) /\ tail = LittleEndian(op[2], 4) /\ lead = LeadBytes(i)
    OBVIOUS
  <2>3. body = EmitIf(fits, lead \o tail)
    BY <1>1, <2>1, <2>2 DEF Rel32
  <2>4. fits /\ body.bytes = lead \o tail
    BY <2>3 DEF EmitIf, Rejected, Bytes, Emitted
  <2>5. op = Imm(op[2])
    <3>1. op[3] = (IF op[2] < 0 THEN -1 ELSE 0)
      BY <2>2, <2>4 DEF SInt32
    <3> QED
      BY <1>2, <3>1 DEF Wide, Imm
  <2> QED
    BY <1>1, <1>2, <1>4, <2>2, <2>4, <2>5 DEF FieldNumber
<1>5. CASE c \in AddressClasses
  <2>1. FormOf(i.name) \in {"RI64", "ALURI", "CompareRI"}
    BY <1>3, <1>5, LabelClassSizes DEF AddressClasses
  <2>2. body = EmitAddressImm(i, is64)
    BY <1>3, <2>1 DEF EmitBase
  <2>3. LeadBytes(i) = RegForm(0, OpcodeBytes(i), 0, Num(i, 1), <<>>)
    BY <2>1 DEF LeadBytes
  <2>4. PICK tail : tail = AddressBytes(op, is64)
    OBVIOUS
  <2>5. body.bytes = LeadBytes(i) \o tail
    BY <1>1, <2>2, <2>3, <2>4 DEF EmitAddressImm, Bytes, Emitted
  <2>6. c \notin BranchClasses
    BY <1>5 DEF BranchClasses, AddressClasses
  <2> QED
    BY <1>1, <1>2, <2>4, <2>5, <2>6 DEF FieldNumber
<1> QED
  BY <1>1, <1>4, <1>5

\* A number that was written in the field is read from it.
LEMMA NumberAgrees ==
  ASSUME NEW bytes \in Seq(Byte), NEW field \in Nat, NEW is64 \in BOOLEAN, NEW i, NEW tail,
         FieldNumber(i, tail, is64), Has(bytes, field, tail)
  PROVE /\ Holds(bytes, field, ValueWidth(i, is64)) /\ FieldAgrees(i, bytes, field, is64)
        /\ Len(tail) = ValueWidth(i, is64) /\ tail \in Seq(Byte)
<1>1. PICK c, op : c = ClassOf(i.name) /\ op = LastOp(i)
  OBVIOUS
<1>2. op = Wide(op[2], op[3]) /\ op[2] \in Word32 /\ op[3] \in Word32
  BY <1>1 DEF FieldNumber
<1>3. CASE c \in BranchClasses
  <2>1. PICK v : v = op[2]
    OBVIOUS
  <2>2. op = Imm(v) /\ tail = LittleEndian(v, 4) /\ v \in Word32
    BY <1>1, <1>2, <1>3, <2>1 DEF FieldNumber
  <2>3. Signed32(bytes, field) = v /\ field + 4 <= Len(bytes)
    BY <2>2, ReadsWord
  <2>4. v \in Int
    BY <2>2, WordIsInteger
  <2>5. tail \in Seq(Byte) /\ Len(tail) = 4
    BY <2>2, <2>4, LittleEndianBytes
  <2>6. ValueWidth(i, is64) = 4
    BY <1>1, <1>3 DEF ValueWidth
  <2>7. Agrees(op, Imm(Signed32(bytes, field)), is64)
    BY <2>2, <2>3, EqualAgree
  <2>8. Holds(bytes, field, 4)
    BY <2>3 DEF Holds
  <2> QED
    BY <1>1, <1>3, <2>5, <2>6, <2>7, <2>8 DEF FieldAgrees
<1>4. CASE c \notin BranchClasses
  <2>1. tail = AddressBytes(op, is64)
    BY <1>1, <1>4 DEF FieldNumber
  <2>2. ValueWidth(i, is64) = AddressWidth(is64)
    BY <1>1, <1>4 DEF ValueWidth, AddressWidth
  <2>3. op[2] \in Int /\ op[3] \in Int
    BY <1>2, WordIsInteger
  <2>4. tail \in Seq(Byte) /\ Len(tail) = AddressWidth(is64)
    BY <2>1, <2>3, AddressString DEF AddressWidth
  <2>5. PICK end : end = field + Len(tail)
    OBVIOUS
  <2>6. \A high : Agrees(op, ReadAddress(bytes, field, is64, high), is64)
    BY <1>2, <2>1, <2>5, AddressAgrees
  <2>7. Holds(bytes, field, AddressWidth(is64))
    <3>1. Len(tail) \in Nat /\ field + Len(tail) <= Len(bytes)
      BY <2>4, LenProperties DEF Has
    <3> QED
      BY <2>4, <3>1 DEF Holds
  <2> QED
    BY <1>1, <1>4, <2>2, <2>4, <2>6, <2>7 DEF FieldAgrees
<1> QED
  BY <1>3, <1>4

-----------------------------------------------------------------------------
(* What the emitter writes, the disassembler reads.                        *)
\* A string begins with the bytes of an instruction; the field of a label holds anything.
Carries(bytes, i, e, is64) ==
  /\ bytes \in Seq(Byte) /\ Len(e.bytes) <= Len(bytes)
  /\ \A j \in 1 .. Len(e.bytes) :
       (e.fixups = <<>> \/ j <= Len(e.bytes) - ValueWidth(i, is64)) => bytes[j] = e.bytes[j]

\* The bytes at the front of a string are found there.
LEMMA FrontHas ==
  ASSUME NEW bytes \in Seq(Byte), NEW s \in Seq(Byte), Len(s) <= Len(bytes),
         \A j \in 1 .. Len(s) : bytes[j] = s[j]
  PROVE Has(bytes, 0, s)
<1>1. Len(s) \in Nat /\ Len(bytes) \in Nat
  BY LenProperties
<1>2. ASSUME NEW k \in 1 .. Len(s) PROVE At(bytes, 0 + k - 1) = s[k]
  <2>1. 0 + k - 1 < Len(bytes) /\ (0 + k - 1) + 1 = k
    BY <1>1
  <2> QED
    BY <2>1 DEF At
<1> QED
  BY <1>1, <1>2 DEF Has

\* The marker before an instruction, and what follows it.
LEMMA FrontStarts ==
  ASSUME NEW bytes \in Seq(Byte), NEW i, i.name \in DOMAIN Records, i.marker \in 0 .. 10,
         NEW is64 \in BOOLEAN, NEW s \in Seq(Byte), Has(bytes, 0, MarkerBytes(i) \o s),
         NEW r, r = GetInstruction(bytes, is64)
  PROVE \E at \in Nat, end \in Nat :
          /\ Starts(bytes, i, is64, s, at, end, r)
          /\ end = Len(MarkerBytes(i) \o s) /\ end = at + Len(s) /\ Has(bytes, at, s)
<1>1. PICK m : m = MarkerBytes(i)
  OBVIOUS
<1>2. m \in Seq(Byte) /\ Len(m) \in Nat /\ Len(s) \in Nat
  BY <1>1, MarkerString, LenProperties
<1>3. Len(m \o s) = Len(m) + Len(s)
  BY <1>2, Concat
<1>4. Has(bytes, 0, m) /\ Has(bytes, 0 + Len(m), s)
  <2>1. 0 \in Nat
    OBVIOUS
  <2> QED
    BY <1>1, <1>2, <2>1, HasConcat
<1>5. m = MarkBytes(i.marker)
  BY <1>1 DEF MarkerBytes, MarkBytes, Marker
<1>6. PICK at, end : at = 0 + Len(m) /\ end = at + Len(s)
  OBVIOUS
<1>7. Marked(bytes, 0, i.marker, at)
  BY <1>4, <1>5, <1>6 DEF Marked
<1>8. Has(bytes, at, s)
  BY <1>4, <1>6
<1>9. Starts(bytes, i, is64, s, at, end, r)
  BY <1>6, <1>7, <1>8 DEF Starts
<1>10. at \in Nat /\ end \in Nat /\ end = Len(m) + Len(s)
  BY <1>2, <1>6
<1> QED
  BY <1>1, <1>3, <1>6, <1>8, <1>9, <1>10

\* With numbers only, an instruction comes back from its bytes.
LEMMA NumbersReadBack ==
  ASSUME NEW i, i.name \in DOMAIN Records, i.marker \in 0 .. 10, NEW source, Filled(i, source),
         NEW is64 \in BOOLEAN, NEW e, e = Encode(i, is64), e.ok, Numbers(source),
         NEW bytes \in Seq(Byte), Has(bytes, 0, e.bytes), NEW r, r = GetInstruction(bytes, is64)
  PROVE ReadBack(r, i, Len(e.bytes), is64)
<1>1. PICK body : body = EmitBody(i, is64)
  OBVIOUS
<1>2. body.ok /\ e = Placed(i, body)
  BY <1>1 DEF Encode, WithMarker, Rejected
<1>3. e.bytes = MarkerBytes(i) \o body.bytes
  BY <1>2 DEF Placed, Emitted
<1>4. PICK s : s = body.bytes
  OBVIOUS
<1>5. s \in Seq(Byte)
  <2>1. Settled(i, source, body, is64)
    BY <1>1, BodyEmits
  <2>2. ~Labelled(i, source, body, is64)
    BY DEF Labelled, Numbers
  <2> QED
    BY <1>2, <1>4, <2>1, <2>2 DEF Settled, Solid
<1>6. Has(bytes, 0, MarkerBytes(i) \o s)
  BY <1>3, <1>4
<1>7. PICK at \in Nat, end \in Nat :
        /\ Starts(bytes, i, is64, s, at, end, r)
        /\ end = Len(MarkerBytes(i) \o s) /\ end = at + Len(s) /\ Has(bytes, at, s)
  BY <1>5, <1>6, FrontStarts
<1>8. end = Len(e.bytes)
  BY <1>3, <1>4, <1>7
<1>9. CASE ClassOf(i.name) \notin BranchClasses \cup AddressClasses
  <2>1. Emits(bytes, i, source, is64, body, at, end, r)
    BY <1>1, <1>2, <1>4, <1>7 DEF Emits
  <2> QED
    BY <1>8, <1>9, <2>1, ReadsEmitted
<1>10. CASE ClassOf(i.name) \in BranchClasses \cup AddressClasses
  <2>1. IsImm(LastOp(i))
    <3>1. PICK n \in DOMAIN source : LastOp(i) = source[n]
      BY <1>10, LastValue
    <3>2. LastOp(i)[1] # "x"
      BY <3>1 DEF Numbers
    <3>3. PICK ops, k : ops = i.ops /\ k = Len(i.ops)
      OBVIOUS
    <3>4. HoldsKind("i", ops, k) /\ LastOp(i) = ops[k]
      BY <1>10, <3>3, LastValue DEF LastOp
    <3> QED
      BY <3>2, <3>4 DEF HoldsKind, HoldsValue, IsImm
  <2>2. PICK tail : FieldNumber(i, tail, is64) /\ body.bytes = LeadBytes(i) \o tail
    BY <1>1, <1>2, <1>10, <2>1, NumberBody
  <2>3. PICK lead : lead = LeadBytes(i)
    OBVIOUS
  <2>4. lead \in Seq(Byte) /\ Len(lead) \in Nat
    BY <1>10, <2>3, LastValue, LeadString, LenProperties
  <2>5. tail \in Seq(Byte) /\ Len(tail) = ValueWidth(i, is64) /\ Len(tail) \in Nat
    <3>1. CASE ClassOf(i.name) \in BranchClasses
      <4>1. tail = LittleEndian(LastOp(i)[2], 4) /\ LastOp(i)[2] \in Int /\ ValueWidth(i, is64) = 4
        BY <2>2, <3>1, WordIsInteger DEF FieldNumber, ValueWidth
      <4> QED
        BY <4>1, LittleEndianBytes, LenProperties
    <3>2. CASE ClassOf(i.name) \notin BranchClasses
      <4>1. PICK op : op = LastOp(i)
        OBVIOUS
      <4>2. tail = AddressBytes(op, is64) /\ op[2] \in Int /\ op[3] \in Int
        BY <2>2, <3>2, <4>1, WordIsInteger DEF FieldNumber
      <4>3. ValueWidth(i, is64) = IF is64 THEN 8 ELSE 4
        BY <3>2 DEF ValueWidth
      <4> QED
        BY <4>2, <4>3, AddressString, LenProperties
    <3> QED
      BY <3>1, <3>2
  <2>6. Has(bytes, at, lead \o tail)
    BY <1>4, <1>7, <2>2, <2>3
  <2>7. Has(bytes, at, lead) /\ Has(bytes, at + Len(lead), tail)
    BY <2>4, <2>5, <2>6, HasConcat
  <2>8. PICK field : field = at + Len(lead)
    OBVIOUS
  <2>9. field \in Nat /\ Has(bytes, field, tail)
    BY <2>4, <2>7, <2>8
  <2>10. Holds(bytes, field, ValueWidth(i, is64)) /\ FieldAgrees(i, bytes, field, is64)
    BY <2>2, <2>9, NumberAgrees
  <2>11. Starts(bytes, i, is64, LeadBytes(i), at, field, r)
    BY <1>7, <2>3, <2>7, <2>8 DEF Starts
  <2>12. SameAs(r, i, field + ValueWidth(i, is64), is64)
    BY <1>10, <2>10, <2>11, ReadsField
  <2>13. field + ValueWidth(i, is64) = end
    <3>1. Len(lead \o tail) = Len(lead) + Len(tail)
      BY <2>4, <2>5, Concat
    <3>2. Len(s) = Len(lead) + Len(tail)
      BY <1>4, <2>2, <2>3, <3>1
    <3> QED
      BY <1>7, <2>4, <2>5, <2>8, <3>2
  <2> QED
    BY <1>8, <2>12, <2>13 DEF ReadBack
<1> QED
  BY <1>9, <1>10

\* What encodeInstruction writes for an instruction, getInstruction reads: the same
\* instruction, its marker, its operands and its length, whatever stands behind it and whatever
\* a fixup writes into the field of a label.
THEOREM EncodingReadsBack ==
  ASSUME NEW i, i.name \in DOMAIN Records, i.marker \in 0 .. 10, NEW source, Filled(i, source),
         NEW is64 \in BOOLEAN, NEW e, e = Encode(i, is64), e.ok,
         NEW bytes, Carries(bytes, i, e, is64)
  PROVE ReadBack(GetInstruction(bytes, is64), i, Len(e.bytes), is64)
<1>1. EmittedAs(i, source, e, is64)
  BY EncodeEmits
<1>2. PICK r, n : r = GetInstruction(bytes, is64) /\ n = Len(OperandKinds[ClassOf(i.name)])
  OBVIOUS
<1>3. bytes \in Seq(Byte) /\ Len(e.bytes) <= Len(bytes) /\ e.bytes \in Seq(Byte)
  BY <1>1 DEF Carries, EmittedAs
<1>4. CASE e.fixups = <<>> /\ Numbers(source)
  <2>1. \A j \in 1 .. Len(e.bytes) : bytes[j] = e.bytes[j]
    BY <1>4 DEF Carries
  <2>2. PICK s : s = e.bytes
    OBVIOUS
  <2>3. Has(bytes, 0, s)
    BY <1>3, <2>1, <2>2, FrontHas
  <2> QED
    BY <1>2, <1>3, <1>4, <2>2, <2>3, NumbersReadBack
<1>5. CASE ~(e.fixups = <<>> /\ Numbers(source))
  <2>1. PICK start, branch, width, fixup :
          /\ start = MarkerBytes(i) \o LeadBytes(i) /\ branch = (ClassOf(i.name) \in BranchClasses)
          /\ width = (IF branch \/ ~is64 THEN 4 ELSE 8)
          /\ fixup = FieldFixup(Len(start), source[n][2], branch, is64)
    OBVIOUS
  <2>2. /\ n \in DOMAIN source /\ source[n][1] = "x"
        /\ ClassOf(i.name) \in BranchClasses \cup AddressClasses
        /\ FormOf(i.name) # "BranchRel32" => HoldsReg(i.ops, 1)
        /\ start \in Seq(Byte) /\ Leaves(e, start, width, fixup)
    BY <1>1, <1>2, <1>5, <2>1 DEF EmittedAs
  <2>3. width = ValueWidth(i, is64) /\ width \in {4, 8}
    BY <2>1 DEF ValueWidth
  <2>4. Len(e.bytes) = Len(start) + width /\ e.fixups # <<>> /\ Len(start) \in Nat
          /\ \A j \in 1 .. Len(start) : e.bytes[j] = start[j]
    BY <2>2, LenProperties DEF Leaves
  <2>5. \A j \in 1 .. Len(start) : bytes[j] = start[j]
    <3>1. SUFFICES ASSUME NEW j \in 1 .. Len(start) PROVE bytes[j] = e.bytes[j]
      BY <2>4
    <3>2. j \in 1 .. Len(e.bytes) /\ j <= Len(e.bytes) - ValueWidth(i, is64)
      BY <2>3, <2>4
    <3> QED
      BY <3>2 DEF Carries
  <2>6. Len(start) <= Len(bytes) /\ Len(bytes) >= Len(start) + width
    <3>1. Len(bytes) \in Nat
      BY <1>3, LenProperties
    <3> QED
      BY <1>3, <2>3, <2>4, <3>1
  <2>7. Has(bytes, 0, start)
    BY <1>3, <2>2, <2>5, <2>6, FrontHas
  <2>8. PICK lead : lead = LeadBytes(i)
    OBVIOUS
  <2>9. lead \in Seq(Byte)
    BY <2>2, <2>8, LeadString
  <2>10. PICK at \in Nat, field \in Nat :
           Starts(bytes, i, is64, lead, at, field, r) /\ field = Len(MarkerBytes(i) \o lead)
    <3>1. Has(bytes, 0, MarkerBytes(i) \o lead)
      BY <2>1, <2>7, <2>8
    <3> QED
      BY <1>2, <1>3, <2>9, <3>1, FrontStarts
  <2>11. field = Len(start)
    BY <2>1, <2>8, <2>10
  <2>12. Holds(bytes, field, ValueWidth(i, is64))
    BY <2>3, <2>6, <2>11 DEF Holds
  <2>13. FieldAgrees(i, bytes, field, is64)
    <3>1. LastOp(i)[1] = "x"
      BY <1>2, <2>2, LastValue
    <3> QED
      BY <3>1 DEF FieldAgrees, Agrees
  <2>14. SameAs(r, i, field + ValueWidth(i, is64), is64)
    BY <2>2, <2>8, <2>10, <2>12, <2>13, ReadsField
  <2>15. field + ValueWidth(i, is64) = Len(e.bytes)
    BY <2>3, <2>4, <2>11
  <2> QED
    BY <1>2, <2>14, <2>15 DEF ReadBack
<1> QED
  BY <1>4, <1>5

-----------------------------------------------------------------------------
(* The operands of the text and those of the instruction.                  *)
\* The sum of one constant is the constant.
LEMMA OneSum ==
  ASSUME NEW v \in Nat, NEW terms, Len(terms) = 1, terms[1].value = v, terms[1].negative = FALSE
  PROVE SumOf(terms) = v
<1> DEFINE F == [n \in 0 .. 1 |-> IF n = 0 THEN 0 ELSE v]
           Eq(f) == f = [n \in 0 .. 1 |->
                           IF n = 0 THEN 0
                           ELSE f[n - 1] + (IF terms[n].negative THEN -terms[n].value ELSE terms[n].value)]
<1>1. Eq(F)
  <2>1. F[0] = 0 /\ F[1] = v
    OBVIOUS
  <2>2. ASSUME NEW n \in 0 .. 1
        PROVE F[n] = IF n = 0 THEN 0
                     ELSE F[n - 1] + (IF terms[n].negative THEN -terms[n].value ELSE terms[n].value)
    <3>1. n = 0 \/ n = 1
      OBVIOUS
    <3>2. CASE n = 1
      <4>1. n - 1 = 0 /\ 0 + v = v
        BY <3>2
      <4> QED
        BY <2>1, <3>2, <4>1
    <3> QED
      BY <2>1, <3>1, <3>2
  <2> QED
    BY <2>2
<1>2. SumOf(terms) = (CHOOSE f : Eq(f))[1]
  BY DEF SumOf
<1>3. PICK g : g = (CHOOSE f : Eq(f)) /\ Eq(g)
  BY <1>1
<1>4. g[0] = 0
  BY <1>3
<1>5. g[1] = g[1 - 1] + v
  BY <1>3
<1> QED
  BY <1>2, <1>3, <1>4, <1>5

\* A term that is no index is a constant.
LEMMA TermConstant ==
  ASSUME NEW t \in Terms, ~IsIndex(t)
  PROVE t.value \in Nat /\ t.negative \in BOOLEAN /\ t = [value |-> t.value, negative |-> t.negative]
<1>1. CASE t \in [reg : 0 .. 31, scale : Nat \cup {NoScale}, negative : BOOLEAN]
  <2>1. DOMAIN t = {"reg", "scale", "negative"}
    BY <1>1
  <2> QED
    BY <2>1 DEF IsIndex
<1>2. CASE t \in [value : Nat, negative : BOOLEAN]
  BY <1>2
<1> QED
  BY <1>1, <1>2 DEF Terms

\* A sequence of one element is not empty.
LEMMA OneTerm ==
  ASSUME NEW s, Len(s) = 1
  PROVE s # <<>>
  OBVIOUS

\* A constant without its sign.
LEMMA PlainTerm ==
  ASSUME NEW c \in [value : Nat, negative : BOOLEAN]
  PROVE [c EXCEPT !.negative = FALSE].value = c.value /\ [c EXCEPT !.negative = FALSE].negative = FALSE
<1>1. [c EXCEPT !.negative = FALSE].value = c.value
  OBVIOUS
<1>2. [c EXCEPT !.negative = FALSE].negative = FALSE
  OBVIOUS
<1> QED
  BY <1>1, <1>2

\* An expression of one constant has its value and its sign.
LEMMA OneConstant ==
  ASSUME NEW c \in Terms, ~IsIndex(c), NEW rest \in Seq(Terms), Len(rest) = 1, rest[1] = c
  PROVE RestOfExpression(rest) = IF c.negative THEN -c.value ELSE c.value
<1>1. c.value \in Nat /\ c.negative \in BOOLEAN /\ c = [value |-> c.value, negative |-> c.negative]
  BY TermConstant
<1>2. PICK v, plain : v = c.value /\ plain = [rest EXCEPT ![1].negative = FALSE]
  OBVIOUS
<1>3. Len(plain) = 1 /\ plain[1] = [c EXCEPT !.negative = FALSE]
  BY <1>2
<1>4. plain[1].value = v /\ plain[1].negative = FALSE
  <2>1. c \in [value : Nat, negative : BOOLEAN]
    BY <1>1
  <2> QED
    BY <1>2, <1>3, <2>1, PlainTerm
<1>5. SumOf(plain) = v
  BY <1>1, <1>2, <1>3, <1>4, OneSum
<1> QED
  BY <1>2, <1>5 DEF RestOfExpression

\* The terms after a prefix.
LEMMA RestOfTerms ==
  ASSUME NEW terms \in Seq(Terms), NEW n \in 0 .. Len(terms), NEW rest,
         rest = SubSeq(terms, n + 1, Len(terms))
  PROVE /\ rest \in Seq(Terms) /\ Len(rest) = Len(terms) - n
        /\ \A k \in 1 .. Len(rest) : rest[k] = terms[n + k]
<1>1. Len(terms) \in Nat
  OBVIOUS
<1>2. PICK len : len = Len(terms)
  OBVIOUS
<1>3. CASE n = len
  <2>1. rest = <<>>
    BY <1>1, <1>2, <1>3
  <2> QED
    BY <1>1, <1>2, <1>3, <2>1
<1>4. CASE n < len
  <2>1. n + 1 \in 1 .. len /\ len \in n + 1 - 1 .. len
    BY <1>1, <1>2, <1>4
  <2>2. rest \in Seq(Terms)
    BY <1>2, <2>1
  <2>3. Len(rest) = len - (n + 1) + 1 /\ \A k \in 1 .. Len(rest) : rest[k] = terms[n + 1 + k - 1]
    BY <1>1, <1>2, <2>1, SubSeqProperties
  <2>4. \A k \in Int : n + 1 + k - 1 = n + k
    BY <1>1, <1>2
  <2> QED
    BY <1>1, <1>2, <2>2, <2>3, <2>4
<1> QED
  BY <1>1, <1>2, <1>3, <1>4

\* The scale of a single index is its own.
LEMMA OneScale ==
  ASSUME NEW terms
  PROVE ScaleAfter(terms, 1) = IF terms[1].scale = NoScale THEN 1 ELSE terms[1].scale
<1>1. PICK scaled, last : /\ scaled = {k \in 1 .. 1 : terms[k].scale # NoScale}
                          /\ last = (CHOOSE k \in scaled : \A j \in scaled : j <= k)
  OBVIOUS
<1>2. CASE terms[1].scale = NoScale
  <2>1. scaled = {}
    BY <1>1, <1>2
  <2> QED
    BY <1>1, <1>2, <2>1 DEF ScaleAfter
<1>3. CASE terms[1].scale # NoScale
  <2>1. scaled = {1}
    BY <1>1, <1>3
  <2>2. last = 1
    BY <1>1, <2>1
  <2> QED
    BY <1>1, <1>3, <2>1, <2>2 DEF ScaleAfter
<1> QED
  BY <1>2, <1>3

\* Of a memory operand the parser reads as the text says it makes what the text says.
LEMMA MemoryMeant ==
  ASSUME NEW mem, IsMemory(mem), mem[3] \in Seq(Terms), parseMemoryOperand(mem).ok,
         PlainMemory(mem), NEW ops, ops = parseMemoryOperand(mem).ops
  PROVE ops = MeantMemory(mem) /\ (ops[2] = GPR(4) => ops[3] = Imm(1))
<1>1. PICK terms, n, rest :
        /\ terms = mem[3] /\ rest = SubSeq(terms, n + 1, Len(terms))
        /\ n = Cardinality({k \in 1 .. Len(terms) : \A j \in 1 .. k : IsIndex(terms[j])})
  OBVIOUS
<1>2. n \in 0 .. Len(terms) /\ (\A k \in 1 .. n : IsIndex(terms[k])) /\ Len(terms) \in Nat
        /\ terms \in Seq(Terms)
  <2>1. terms \in Seq(Terms)
    BY <1>1
  <2>2. n = Cardinality({k \in 1 .. Len(terms) : \A j \in 1 .. k : IsIndex(terms[j])})
    BY <1>1
  <2>3. n \in 0 .. Len(terms) /\ (\A k \in 1 .. n : IsIndex(terms[k]))
    BY <2>1, <2>2, IndexPrefix
  <2> QED
    BY <2>1, <2>3
<1>3. /\ \A k \in 1 .. n - 1 : terms[k].reg = 4
      /\ \A k \in 1 .. Len(rest) : ~IsIndex(rest[k])
      /\ ops = <<GPR(mem[2]), IF n = 0 THEN GPR(4) ELSE GPR(terms[n].reg),
                 Imm(ScaleAfter(terms, n)),
                 IF rest = <<>> THEN Imm(0) ELSE Imm(RestOfExpression(rest))>>
  BY <1>1 DEF parseMemoryOperand, ParseFailure
<1>4. /\ \A k \in 1 .. Len(terms) : IsIndex(terms[k]) => terms[k].reg # 4
      /\ \A j, k \in 1 .. Len(terms) : IsIndex(terms[j]) \/ IsIndex(terms[k]) \/ j = k
  BY <1>1 DEF PlainMemory
<1>5. n \in {0, 1}
  <2>1. SUFFICES ASSUME n > 1 PROVE FALSE
    BY <1>2
  <2>2. 1 \in 1 .. n - 1 /\ 1 \in 1 .. n /\ 1 \in 1 .. Len(terms)
    BY <1>2, <2>1
  <2> QED
    BY <1>2, <1>3, <1>4, <2>2
<1>6. /\ rest \in Seq(Terms) /\ Len(rest) = Len(terms) - n
      /\ \A k \in 1 .. Len(rest) : rest[k] = terms[n + k]
  <2>1. terms \in Seq(Terms) /\ n \in 0 .. Len(terms) /\ rest = SubSeq(terms, n + 1, Len(terms))
    BY <1>1, <1>2
  <2> QED
    BY <2>1, RestOfTerms, ZenonT(60)
<1>7. \A k \in n + 1 .. Len(terms) : ~IsIndex(terms[k])
  <2>1. ASSUME NEW k \in n + 1 .. Len(terms) PROVE ~IsIndex(terms[k])
    <3>1. k - n \in 1 .. Len(rest) /\ n + (k - n) = k
      BY <1>2, <1>6
    <3> QED
      BY <1>3, <1>6, <3>1
  <2> QED
    BY <2>1
<1>8. Len(terms) \in {n, n + 1}
  <2>1. SUFFICES ASSUME Len(terms) > n + 1 PROVE FALSE
    BY <1>2
  <2>2. /\ n + 1 \in 1 .. Len(terms) /\ n + 2 \in 1 .. Len(terms) /\ n + 1 # n + 2
        /\ n + 1 \in n + 1 .. Len(terms) /\ n + 2 \in n + 1 .. Len(terms)
    BY <1>2, <2>1
  <2> QED
    BY <1>4, <1>7, <2>2
<1>9. PICK indices, constants :
        /\ indices = {k \in 1 .. Len(terms) : IsIndex(terms[k])}
        /\ constants = (1 .. Len(terms)) \ indices
  OBVIOUS
<1>10. indices = 1 .. n /\ constants = n + 1 .. Len(terms)
  <2>1. \A k \in 1 .. Len(terms) : IsIndex(terms[k]) <=> k \in 1 .. n
    BY <1>2, <1>7
  <2> QED
    BY <1>2, <1>9, <2>1
<1>11. PICK index, constant : /\ index = terms[CHOOSE k \in indices : TRUE]
                              /\ constant = terms[CHOOSE k \in constants : TRUE]
  OBVIOUS
<1>12. MeantMemory(mem) =
         <<GPR(mem[2]), IF indices = {} THEN GPR(4) ELSE GPR(index.reg),
           Imm(IF indices = {} THEN 1 ELSE IF index.scale = NoScale THEN 1 ELSE index.scale),
           IF constants = {} THEN Imm(0)
           ELSE Imm(IF constant.negative THEN -constant.value ELSE constant.value)>>
  BY <1>1, <1>9, <1>11 DEF MeantMemory
<1>13. /\ n = 0 => indices = {}
       /\ n # 0 => indices # {} /\ index = terms[n]
  <2>1. CASE n = 0
    BY <1>10, <2>1
  <2>2. CASE n = 1
    <3>1. indices = {1}
      BY <1>10, <2>2
    <3>2. (CHOOSE k \in indices : TRUE) = 1
      BY <3>1
    <3> QED
      BY <1>11, <2>2, <3>1, <3>2
  <2> QED
    BY <1>5, <2>1, <2>2
<1>14. /\ rest = <<>> => constants = {}
       /\ rest # <<>> => /\ constants # {}
                         /\ RestOfExpression(rest)
                              = (IF constant.negative THEN -constant.value ELSE constant.value)
  <2>1. CASE Len(terms) = n
    <3>1. Len(rest) = 0 /\ constants = {}
      BY <1>2, <1>6, <1>10, <2>1
    <3>2. rest = <<>>
      BY <1>6, <3>1
    <3> QED
      BY <3>1, <3>2
  <2>2. CASE Len(terms) = n + 1
    <3>1. Len(rest) = 1 /\ constants = {n + 1}
      BY <1>2, <1>6, <1>10, <2>2
    <3>2. constant = terms[n + 1]
      <4>1. (CHOOSE k \in constants : TRUE) = n + 1
        BY <3>1
      <4> QED
        BY <1>11, <4>1
    <3>3. rest[1] = constant /\ rest # <<>>
      <4>1. 1 \in 1 .. Len(rest)
        BY <3>1
      <4>2. rest[1] = terms[n + 1]
        BY <1>6, <4>1
      <4>3. rest # <<>>
        BY <3>1, OneTerm
      <4> QED
        BY <3>2, <4>2, <4>3
    <3>4. constant \in Terms /\ ~IsIndex(constant)
      <4>1. n + 1 \in 1 .. Len(terms) /\ n + 1 \in n + 1 .. Len(terms)
        BY <1>2, <2>2
      <4> QED
        BY <1>2, <1>7, <3>2, <4>1
    <3>5. RestOfExpression(rest) = (IF constant.negative THEN -constant.value ELSE constant.value)
      BY <1>6, <3>1, <3>3, <3>4, OneConstant
    <3> QED
      BY <3>1, <3>3, <3>5
  <2> QED
    BY <1>8, <2>1, <2>2
<1>15. /\ n = 0 => ScaleAfter(terms, n) = 1
       /\ n # 0 => ScaleAfter(terms, n) = IF index.scale = NoScale THEN 1 ELSE index.scale
  <2>1. CASE n = 0
    <3>1. {k \in 1 .. n : terms[k].scale # NoScale} = {}
      BY <2>1
    <3> QED
      BY <2>1, <3>1 DEF ScaleAfter
  <2>2. CASE n = 1
    BY <1>13, <2>2, OneScale
  <2> QED
    BY <1>5, <2>1, <2>2
<1>16. ops = MeantMemory(mem)
  <2>1. PICK v, w : v = RestOfExpression(rest)
                    /\ w = (IF constant.negative THEN -constant.value ELSE constant.value)
    OBVIOUS
  <2>2. CASE n = 0
    BY <1>3, <1>12, <1>13, <1>14, <1>15, <2>1, <2>2
  <2>3. CASE n # 0
    BY <1>3, <1>12, <1>13, <1>14, <1>15, <2>1, <2>3
  <2> QED
    BY <2>2, <2>3
<1>17. ops[2] = GPR(4) => ops[3] = Imm(1)
  <2>1. CASE n = 0
    BY <1>3, <1>15, <2>1
  <2>2. CASE n # 0
    <3>1. n \in 1 .. n /\ n \in 1 .. Len(terms)
      BY <1>2, <2>2
    <3>2. terms[n].reg # 4
      BY <1>2, <1>4, <3>1
    <3>3. ops[2] = GPR(terms[n].reg)
      BY <1>3, <2>2
    <3> QED
      BY <3>2, <3>3 DEF GPR
  <2> QED
    BY <2>1, <2>2
<1> QED
  BY <1>16, <1>17

\* One operand of the text: itself, or the four of a memory operand.
Shaped(kind, op, ops) ==
  /\ kind = "m" => \E a, b, c, d : ops = <<a, b, c, d>>
  /\ kind # "m" => ops = <<op>>

\* What the text says of one operand.
LEMMA MeantShape ==
  ASSUME NEW kind \in {"r", "v", "m", "i"}, NEW op, IsOperand(kind, op)
  PROVE Shaped(kind, op, MeantOperand(op)) /\ (kind = "m" => IsMemory(op) /\ op[3] \in Seq(Terms))
          /\ (kind # "m" => ~IsMemory(op))
<1>1. CASE kind = "m"
  <2>1. IsMemory(op) /\ op[3] \in Seq(Terms)
    BY <1>1 DEF IsOperand, IsMemory
  <2>2. MeantOperand(op) = MeantMemory(op)
    BY <2>1 DEF MeantOperand
  <2>3. \E a, b, c, d : MeantMemory(op) = <<a, b, c, d>>
    BY Zenon DEF MeantMemory
  <2> QED
    BY <1>1, <2>1, <2>2, <2>3 DEF Shaped
<1>2. CASE kind # "m"
  <2>1. ~IsMemory(op)
    <3>1. CASE kind = "r"
      BY <3>1 DEF IsOperand, GPR, IsMemory
    <3>2. CASE kind = "v"
      BY <3>2 DEF IsOperand, Vec, IsMemory
    <3>3. CASE kind = "i"
      BY <3>3 DEF IsOperand, Wide, IsMemory
    <3> QED
      BY <1>2, <3>1, <3>2, <3>3
  <2>2. MeantOperand(op) = <<op>>
    BY <2>1 DEF MeantOperand
  <2> QED
    BY <1>2, <2>1, <2>2 DEF Shaped
<1> QED
  BY <1>1, <1>2

\* A shaped operand as a sequence.
LEMMA ShapeString ==
  ASSUME NEW kind, NEW op, NEW ops, Shaped(kind, op, ops), NEW V,
         \A j \in 1 .. 4 : ops[j] \in V
  PROVE ops \in Seq(V) /\ Len(ops) = IF kind = "m" THEN 4 ELSE 1
<1>1. CASE kind = "m"
  <2>1. PICK a, b, c, d : ops = <<a, b, c, d>>
    BY <1>1 DEF Shaped
  <2>2. a \in V /\ b \in V /\ c \in V /\ d \in V
    <3>1. ops[1] = a /\ ops[2] = b /\ ops[3] = c /\ ops[4] = d
      BY <2>1
    <3> QED
      BY <3>1
  <2> QED
    BY <1>1, <2>1, <2>2
<1>2. CASE kind # "m"
  <2>1. ops = <<op>> /\ ops[1] \in V
    BY <1>2 DEF Shaped
  <2>2. op \in V
    BY <2>1
  <2> QED
    BY <1>2, <2>1, <2>2
<1> QED
  BY <1>1, <1>2

\* A list of shaped operands.
AllShaped(kinds, n, source, p) ==
  /\ n \in 0 .. 4 /\ Len(p) = n /\ (n = 0 => p = <<>>)
  /\ \A k \in 1 .. n : Shaped(kinds[k], source[k], p[k])

\* How many operands a list of shaped ones is.
LEMMA ShapedLength ==
  ASSUME NEW kinds, NEW n, NEW p, NEW source, NEW x, AllShaped(kinds, n, source, p)
  PROVE /\ Len(<<x>> \o FlattenSeq(p)) = 1 + Place(kinds, n + 1)
        /\ Len(<<>> \o FlattenSeq(p)) = Place(kinds, n + 1)
<1>0. /\ n \in 0 .. 4 /\ Len(p) = n /\ (n = 0 => p = <<>>)
      /\ \A k \in 1 .. n : Shaped(kinds[k], source[k], p[k])
  BY DEF AllShaped
<1> DEFINE Of(k) == {p[k][j] : j \in 1 .. 4}
           V == (UNION {Of(k) : k \in 1 .. n}) \cup {x}
<1>1. \A k \in 1 .. n : p[k] \in Seq(V) /\ Len(p[k]) = Size(kinds, k)
  <2>1. ASSUME NEW k \in 1 .. n
        PROVE p[k] \in Seq(V) /\ Len(p[k]) = Size(kinds, k)
    <3>1. \A j \in 1 .. 4 : p[k][j] \in V
      <4>1. \A j \in 1 .. 4 : p[k][j] \in Of(k)
        OBVIOUS
      <4>2. Of(k) \subseteq V
        <5> HIDE DEF Of
        <5>1. \A h \in 1 .. n : \A y \in Of(h) : y \in UNION {Of(g) : g \in 1 .. n}
          OBVIOUS
        <5> QED
          BY <2>1, <5>1
      <4> QED
        BY <4>1, <4>2
    <3> HIDE DEF V
    <3> QED
      BY <1>0, <2>1, <3>1, ShapeString DEF Size
  <2> QED
    BY <2>1
<1>2. x \in V
  OBVIOUS
<1> HIDE DEF V, Of
<1>3. PICK flat : flat = FlattenSeq(p)
  OBVIOUS
<1>4. flat \in Seq(V) /\ Len(flat) = Place(kinds, n + 1)
  <2>1. Flattened(flat, p, kinds, n, V)
    BY <1>0, <1>1, <1>3, FlatPlaces
  <2> QED
    BY <2>1 DEF Flattened
<1>5. PICK first : first = <<x>>
  OBVIOUS
<1>6. first \in Seq(V) /\ Len(first) = 1
  BY <1>2, <1>5
<1>7. Len(first \o flat) = 1 + Len(flat)
  BY <1>4, <1>6, ConcatProperties
<1>8. <<>> \o flat = flat
  BY <1>4, ConcatEmptySeq
<1> QED
  BY <1>3, <1>4, <1>5, <1>7, <1>8

\* What the matcher hands over is, operand by operand, as long as what the text says, and the
\* same when the operands are read as the text says; then an index R4 has the scale 1.
LEMMA MeantMatched ==
  ASSUME NEW s, s.kind = "instruction", IsStatement(s),
         NEW operands, operands = [k \in 1 .. Len(s.ops) |-> parseOperand(s.ops[k]).ops],
         \A k \in 1 .. Len(s.ops) : parseOperand(s.ops[k]).ok,
         NEW ops, ops = Matched(s.name, operands)
  PROVE /\ Len(MeantOperands(s)) = Len(ops)
        /\ PlainStatement(s) =>
             /\ MeantOperands(s) = ops
             /\ \A m \in 1 .. 4 : AddressPlace(s.name, m) /\ ops[m + 1] = GPR(4) => ops[m + 2] = Imm(1)
<1>1. PICK kinds, n, class, tied, source :
        /\ class = ClassOf(s.name) /\ kinds = OperandKinds[class] /\ n = Len(kinds)
        /\ tied = (IF class \in Tied THEN 1 ELSE 0) /\ source = s.ops
  OBVIOUS
<1>2. MatchedAs(s, operands, ops, kinds, n, tied)
  BY <1>1, MatchedPlaces
<1>3. /\ n \in 0 .. 4 /\ DOMAIN source = 1 .. n /\ Len(source) = n
      /\ \A k \in 1 .. n : kinds[k] \in {"r", "v", "m", "i"} /\ IsOperand(kinds[k], source[k])
  BY <1>1, <1>2 DEF MatchedAs, IsStatement
<1>4. class \in Tied => n > 0 /\ kinds[1] \in {"r", "v"}
  <2>1. class \in DOMAIN OperandKinds
    BY <1>1, RecordRange, SameClasses DEF IsStatement
  <2> QED
    BY <1>1, <2>1, KindsOfClass
<1>5. PICK meant : meant = [k \in 1 .. n |-> MeantOperand(source[k])]
  OBVIOUS
<1>6. MeantOperands(s) = (IF class \in Tied THEN <<source[1]>> ELSE <<>>) \o FlattenSeq(meant)
  BY <1>1, <1>3, <1>5 DEF MeantOperands
<1>7. ASSUME NEW k \in 1 .. n
      PROVE /\ Shaped(kinds[k], source[k], meant[k])
            /\ kinds[k] = "m" => IsMemory(source[k]) /\ source[k][3] \in Seq(Terms)
            /\ kinds[k] # "m" => ~IsMemory(source[k])
  <2>1. PICK kind, op : kind = kinds[k] /\ op = source[k]
    OBVIOUS
  <2>2. meant[k] = MeantOperand(op)
    BY <1>5, <1>7, <2>1
  <2>3. kind \in {"r", "v", "m", "i"} /\ IsOperand(kind, op)
    BY <1>3, <1>7, <2>1
  <2> QED
    BY <2>1, <2>2, <2>3, MeantShape
<1>8. Len(MeantOperands(s)) = Len(ops)
  <2>1. Len(meant) = n /\ (n = 0 => meant = <<>>)
    BY <1>3, <1>5
  <2>2. /\ Len(<<source[1]>> \o FlattenSeq(meant)) = 1 + Place(kinds, n + 1)
        /\ Len(<<>> \o FlattenSeq(meant)) = Place(kinds, n + 1)
    <3>1. PICK x : x = source[1]
      OBVIOUS
    <3>2. \A k \in 1 .. n : Shaped(kinds[k], source[k], meant[k])
      BY <1>7
    <3>3. n \in 0 .. 4
      BY <1>3
    <3>4. AllShaped(kinds, n, source, meant)
      BY <2>1, <3>2, <3>3 DEF AllShaped
    <3>5. /\ Len(<<x>> \o FlattenSeq(meant)) = 1 + Place(kinds, n + 1)
          /\ Len(<<>> \o FlattenSeq(meant)) = Place(kinds, n + 1)
      BY <3>4, ShapedLength
    <3> QED
      BY <3>1, <3>5
  <2>3. Len(ops) = tied + Place(kinds, n + 1)
    BY <1>2 DEF MatchedAs
  <2>4. CASE class \in Tied
    BY <1>1, <1>6, <2>2, <2>3, <2>4
  <2>5. CASE class \notin Tied
    <3>1. Place(kinds, n + 1) \in Nat
      BY DEF Place, Size
    <3>2. tied = 0 /\ 0 + Place(kinds, n + 1) = Place(kinds, n + 1)
      BY <1>1, <2>5, <3>1
    <3> QED
      BY <1>6, <2>2, <2>3, <2>5, <3>2
  <2> QED
    BY <2>4, <2>5
<1>9. ASSUME PlainStatement(s), NEW k \in 1 .. n
      PROVE /\ operands[k] = meant[k]
            /\ kinds[k] = "m" => (operands[k][2] = GPR(4) => operands[k][3] = Imm(1))
  <2>1. PICK op : op = source[k]
    OBVIOUS
  <2>2. /\ operands[k] = parseOperand(op).ops /\ parseOperand(op).ok
        /\ meant[k] = MeantOperand(op) /\ PlainMemory(op)
    BY <1>1, <1>3, <1>5, <1>9, <2>1 DEF PlainStatement
  <2>3. CASE kinds[k] = "m"
    <3>1. IsMemory(op) /\ op[3] \in Seq(Terms)
      BY <1>7, <1>9, <2>1, <2>3
    <3>2. parseOperand(op) = parseMemoryOperand(op) /\ MeantOperand(op) = MeantMemory(op)
      BY <3>1 DEF parseOperand, MeantOperand
    <3>3. PICK found : found = parseMemoryOperand(op).ops
      OBVIOUS
    <3>4. found = MeantMemory(op) /\ (found[2] = GPR(4) => found[3] = Imm(1))
      BY <2>2, <3>1, <3>2, <3>3, MemoryMeant
    <3> QED
      BY <2>2, <3>2, <3>3, <3>4
  <2>4. CASE kinds[k] # "m"
    <3>1. ~IsMemory(op)
      BY <1>7, <1>9, <2>1, <2>4
    <3>2. parseOperand(op).ops = <<op>> /\ MeantOperand(op) = <<op>>
      BY <3>1 DEF parseOperand, MeantOperand
    <3> QED
      BY <2>2, <2>4, <3>2
  <2> QED
    BY <2>3, <2>4
<1>10. ASSUME PlainStatement(s)
       PROVE /\ MeantOperands(s) = ops
             /\ \A m \in 1 .. 4 : AddressPlace(s.name, m) /\ ops[m + 1] = GPR(4) => ops[m + 2] = Imm(1)
  <2>1. operands = meant
    <3>1. operands = [k \in 1 .. n |-> parseOperand(source[k]).ops]
      BY <1>1, <1>3
    <3>2. \A k \in 1 .. n : operands[k] = meant[k]
      BY <1>9, <1>10
    <3>3. operands = [k \in 1 .. n |-> operands[k]]
      BY <3>1
    <3>4. meant = [k \in 1 .. n |-> meant[k]]
      BY <1>5
    <3> QED
      BY <3>2, <3>3, <3>4
  <2>2. class \in Tied => operands[1] = <<source[1]>>
    <3>1. SUFFICES ASSUME class \in Tied PROVE operands[1] = <<source[1]>>
      OBVIOUS
    <3>2. 1 \in 1 .. n /\ kinds[1] # "m"
      BY <1>3, <1>4, <3>1
    <3>3. Shaped(kinds[1], source[1], meant[1])
      BY <1>7, <3>2
    <3> QED
      BY <2>1, <3>2, <3>3 DEF Shaped
  <2>3. ops = (IF class \in Tied THEN operands[1] ELSE <<>>) \o FlattenSeq(operands)
    BY <1>1 DEF Matched
  <2>4. MeantOperands(s) = ops
    BY <1>6, <2>1, <2>2, <2>3
  <2>5. ASSUME NEW m \in 1 .. 4, AddressPlace(s.name, m), ops[m + 1] = GPR(4)
        PROVE ops[m + 2] = Imm(1)
    <3>1. PICK k \in 1 .. n : kinds[k] = "m" /\ m = tied + 1 + Place(kinds, k)
      BY <1>1, <2>5 DEF AddressPlace
    <3>2. PICK q, at : q = Place(kinds, k) /\ at = tied + q
      OBVIOUS
    <3>3. /\ q \in Nat
          /\ \A j \in 1 .. Size(kinds, k) : ops[at + j] = operands[k][j]
      BY <1>2, <3>2 DEF MatchedAs
    <3>4. Size(kinds, k) = 4 /\ tied \in {0, 1}
      BY <1>1, <3>1 DEF Size
    <3>5. at + 2 = m + 1 /\ at + 3 = m + 2
      BY <3>1, <3>2, <3>3, <3>4
    <3>6. ops[at + 2] = operands[k][2] /\ ops[at + 3] = operands[k][3]
      BY <3>3, <3>4
    <3>7. operands[k][2] = GPR(4) => operands[k][3] = Imm(1)
      BY <1>9, <1>10, <3>1
    <3>8. PICK a, b : a = m + 1 /\ b = m + 2
      OBVIOUS
    <3>9. ops[a] = operands[k][2] /\ ops[b] = operands[k][3] /\ ops[a] = GPR(4)
      BY <2>5, <3>5, <3>6, <3>8
    <3>10. ops[b] = Imm(1)
      BY <3>7, <3>9
    <3> QED
      BY <3>8, <3>10
  <2> QED
    BY <2>4, <2>5
<1> QED
  BY <1>8, <1>10

-----------------------------------------------------------------------------
(* What stands in the section for a line of the listing.                   *)

\* The instruction parseInstruction hands to the emitter, and what the emitter makes of it.
Handed(s) ==
  [name |-> s.name, marker |-> MarkerOf(s),
   ops |-> Matched(s.name, [k \in 1 .. Len(s.ops) |-> parseOperand(s.ops[k]).ops])]
Emission(e) == Encode(Handed(e.statement), target.is64)

\* A statement the parser takes.
Accepted(s) ==
  /\ s.kind = "instruction" /\ IsStatement(s)
  /\ \A k \in 1 .. Len(s.ops) : parseOperand(s.ops[k]).ok
  /\ s.mark = "" \/ MarkerOf(s) # Marker.none

\* Every byte of a line is the one the emitter wrote, but for the field of a label.
Written(e) ==
  /\ Accepted(e.statement) /\ Emission(e).ok /\ EmittedFor(e, Emission(e))
  /\ e.at \in Nat /\ e.end = e.at + Len(Emission(e).bytes)
  /\ \A j \in 1 .. Len(Emission(e).bytes) :
       (UsesLabel(e) => e.at + j <= FieldAt(e)) => code[e.at + j] = Emission(e).bytes[j]
WrittenInv == \A e : Listed(e) => Written(e)

\* What is emitted for a line depends on the target alone.
LEMMA EmissionKept ==
  ASSUME NEW e, target' = target
  PROVE /\ Emission(e)' = Emission(e) /\ FieldAt(e)' = FieldAt(e)
        /\ \A r : EmittedFor(e, r)' <=> EmittedFor(e, r)
<1>1. Emission(e)' = Emission(e)
  BY DEF Emission
<1>2. FieldAt(e)' = FieldAt(e) /\ FieldWidth(e)' = FieldWidth(e)
  BY FieldKept
<1>3. \A r : EmittedFor(e, r)' <=> EmittedFor(e, r)
  BY <1>2 DEF EmittedFor
<1> QED
  BY <1>1, <1>2, <1>3

\* A line whose bytes stay, but for the field of its label.
LEMMA WrittenKept ==
  ASSUME NEW e, Written(e), target' = target,
         \A b \in e.at + 1 .. e.end : (UsesLabel(e) => b <= FieldAt(e)) => code'[b] = code[b]
  PROVE Written(e)'
<1>1. PICK r, at, end : r = Emission(e) /\ at = e.at /\ end = e.end
  OBVIOUS
<1>2. /\ r.ok /\ EmittedFor(e, r) /\ Accepted(e.statement) /\ at \in Nat /\ end = at + Len(r.bytes)
      /\ \A j \in 1 .. Len(r.bytes) :
           (UsesLabel(e) => at + j <= FieldAt(e)) => code[at + j] = r.bytes[j]
  BY <1>1 DEF Written
<1>3. Emission(e)' = r /\ FieldAt(e)' = FieldAt(e) /\ EmittedFor(e, r)'
  BY <1>1, <1>2, EmissionKept
<1>4. Len(r.bytes) \in Nat
  BY <1>2, LenProperties DEF EmittedFor
<1>5. ASSUME NEW j \in 1 .. Len(r.bytes), UsesLabel(e) => at + j <= FieldAt(e)
      PROVE code'[at + j] = r.bytes[j]
  <2>1. at + j \in at + 1 .. end
    BY <1>2, <1>4
  <2> QED
    BY <1>1, <1>2, <1>5, <2>1
<1>6. \A j \in 1 .. Len(r.bytes) :
        (UsesLabel(e) => at + j <= FieldAt(e)') => code'[at + j] = r.bytes[j]
  BY <1>3, <1>5
<1>7. (Emission(e).ok)' /\ EmittedFor(e, Emission(e))'
  BY <1>2, <1>3 DEF EmittedFor
<1> QED
  BY <1>1, <1>2, <1>3, <1>6, <1>7 DEF Written

\* A step that leaves the listing and the bytes alone.
LEMMA WrittenStays ==
  ASSUME WrittenInv, UNCHANGED <<target, listing, code>>
  PROVE WrittenInv'
<1>1. ASSUME NEW e, Listed(e)' PROVE Written(e)'
  <2>1. Written(e)
    BY <1>1 DEF WrittenInv, Listed
  <2> QED
    BY <2>1, WrittenKept
<1> QED
  BY <1>1 DEF WrittenInv

\* An instruction that is listed is written; the others stay.
LEMMA EmitWrites ==
  ASSUME CodeInv, WrittenInv, NEW e, NEW r, r = Emission(e), r.ok, Accepted(e.statement),
         EmittedFor(e, r), Extends(e, r)
  PROVE WrittenInv'
<1>1. Typed /\ Tiles /\ EntriesOK
  BY DEF CodeInv
<1>2. /\ Len(code) \in Nat /\ Len(r.bytes) \in Nat
      /\ \A b \in 1 .. Len(code) : code'[b] = code[b]
      /\ \A b \in 1 .. Len(r.bytes) : code'[Len(code) + b] = r.bytes[b]
  BY <1>1, CodeGrows
<1>3. target' = target /\ e.at = Len(code) /\ e.end = Len(code) + Len(r.bytes)
  BY DEF Extends
<1>4. Written(e)'
  <2>1. Emission(e)' = r /\ EmittedFor(e, r)'
    BY <1>3, EmissionKept
  <2>2. (Emission(e).ok)' /\ EmittedFor(e, Emission(e))'
    BY <2>1 DEF EmittedFor
  <2>3. e.at \in Nat /\ e.end = e.at + Len(r.bytes)
    BY <1>2, <1>3
  <2>4. \A j \in 1 .. Len(r.bytes) : code'[e.at + j] = r.bytes[j]
    BY <1>2, <1>3
  <2> QED
    BY <2>1, <2>2, <2>3, <2>4 DEF Written
<1>5. ASSUME NEW d, Listed(d) PROVE Written(d)'
  <2>1. Written(d) /\ EntryOK(d)
    BY <1>1, <1>5 DEF WrittenInv, EntriesOK
  <2>2. \A b \in d.at + 1 .. d.end : b \in 1 .. Len(code)
    BY <1>2, <2>1 DEF EntryOK
  <2>3. \A b \in d.at + 1 .. d.end : code'[b] = code[b]
    BY <1>2, <2>2
  <2> QED
    BY <1>3, <2>1, <2>3, WrittenKept
<1>6. \A d : Listed(d)' => (Listed(d) \/ d = e)
  BY <1>1, ListGrows
<1> QED
  BY <1>4, <1>5, <1>6 DEF WrittenInv

\* An instruction, accepted or rejected.
LEMMA InstructionWrites ==
  ASSUME CodeInv, WrittenInv, NEW s, IsStatement(s), assembleInstruction(s)
  PROVE WrittenInv'
<1>1. PICK parsed, operands, marker :
        /\ parsed = [k \in 1 .. Len(s.ops) |-> parseOperand(s.ops[k])]
        /\ operands = [k \in 1 .. Len(s.ops) |-> parsed[k].ops]
        /\ marker = pendingMarker'
  OBVIOUS
<1>2. PICK r : r = Encode([name |-> s.name, marker |-> marker, ops |-> Matched(s.name, operands)],
                          target.is64)
  OBVIOUS
<1>3. /\ s.kind = "instruction" /\ marker = MarkerOf(s) /\ marker \in 0 .. 10
      /\ UNCHANGED <<target, labels, relocations, offset>>
  BY <1>1, MarkerRange DEF assembleInstruction, readVars, MarkerOf
<1>4. \/ UNCHANGED <<listing, code>>
      \/ /\ \A k \in 1 .. Len(s.ops) : parsed[k].ok
         /\ ~(s.mark # "" /\ parseMarkerName(s.mark) = Marker.none)
         /\ EmitInstruction(s, r)
  BY <1>1, <1>2 DEF assembleInstruction
<1>5. CASE UNCHANGED <<listing, code>>
  BY <1>3, <1>5, WrittenStays
<1>6. CASE /\ \A k \in 1 .. Len(s.ops) : parsed[k].ok
           /\ ~(s.mark # "" /\ parseMarkerName(s.mark) = Marker.none)
           /\ EmitInstruction(s, r)
  <2>1. CASE ~r.ok
    <3>1. UNCHANGED <<listing, code>>
      BY <1>6, <2>1 DEF EmitInstruction
    <3> QED
      BY <1>3, <3>1, WrittenStays
  <2>2. CASE r.ok
    <3>1. PICK e : e = [statement |-> s, at |-> Len(code), end |-> Len(code) + Len(r.bytes),
                        features |-> features]
      OBVIOUS
    <3>2. e.statement = s /\ e.at = Len(code) /\ e.end = Len(code) + Len(r.bytes)
      BY <3>1
    <3>3. Typed
      BY DEF CodeInv
    <3>4. operands = [k \in 1 .. Len(s.ops) |-> parseOperand(s.ops[k]).ops]
      BY <1>1
    <3>5. \A k \in 1 .. Len(s.ops) : parseOperand(s.ops[k]).ok
      BY <1>1, <1>6
    <3>6. EmittedFor(e, r)
      BY <1>2, <1>3, <2>2, <3>2, <3>3, <3>4, <3>5, StatementEmits
    <3>7. Extends(e, r)
      BY <1>3, <1>6, <2>2, <3>1, <3>2 DEF Extends, EmitInstruction
    <3>8. Accepted(e.statement)
      BY <1>3, <1>6, <3>2, <3>5 DEF Accepted, MarkerOf
    <3>9. r = Emission(e)
      BY <1>2, <1>3, <3>2, <3>4 DEF Emission, Handed
    <3> QED
      BY <2>2, <3>6, <3>7, <3>8, <3>9, EmitWrites
  <2> QED
    BY <2>1, <2>2
<1> QED
  BY <1>4, <1>5, <1>6

\* A statement.
LEMMA ParseWrites ==
  ASSUME CodeInv, WrittenInv, ParseStatement
  PROVE WrittenInv'
<1>1. Typed
  BY DEF CodeInv
<1>2. line <= Len(Menu) /\ line \in Nat \ {0} /\ Len(Menu) \in Nat
  BY <1>1, MenuAssumption DEF ParseStatement, Typed
<1>3. line \in 1 .. Len(Menu)
  BY <1>2
<1>4. PICK s \in Menu[line] : \/ parseCPUOrArchDirective(s)
                              \/ parseModeDirective(s)
                              \/ DefineLabel(s)
                              \/ assembleInstruction(s)
  BY DEF ParseStatement
<1>5. IsStatement(s)
  BY <1>3, MenuAssumption
<1>6. CASE parseCPUOrArchDirective(s)
  <2>1. UNCHANGED <<target, listing, code>>
    BY <1>6 DEF parseCPUOrArchDirective, objectVars
  <2> QED
    BY <2>1, WrittenStays
<1>7. CASE parseModeDirective(s)
  <2>1. UNCHANGED <<target, listing, code>>
    BY <1>7 DEF parseModeDirective, objectVars
  <2> QED
    BY <2>1, WrittenStays
<1>8. CASE DefineLabel(s)
  <2>1. UNCHANGED <<target, listing, code>>
    BY <1>8 DEF DefineLabel, objectVars
  <2> QED
    BY <2>1, WrittenStays
<1> QED
  BY <1>4, <1>5, <1>6, <1>7, <1>8, InstructionWrites

\* Applying a fixup changes the field of one label.
LEMMA ApplyLeaves ==
  ASSUME CodeInv, WrittenInv, ApplyFixup
  PROVE WrittenInv'
<1>1. Typed /\ Tiles /\ EntriesOK
  BY DEF CodeInv
<1>2. UNCHANGED <<target, listing>>
  BY DEF ApplyFixup, sourceVars
<1>3. PICK e : Listed(e) /\ EntryOK(e) /\ UsesLabel(e) /\ Head(fixups) = FixupFor(e) /\ Zeros(e)
  BY HeadFixup DEF ApplyFixup
<1>4. Writes(e)
  BY <1>3, ApplyWrites
<1>5. FieldAt(e) \in Nat /\ e.at < FieldAt(e) /\ e.at \in Nat /\ e.end \in Nat
  BY <1>3, FieldPlace DEF EntryOK
<1>6. ASSUME NEW d, Listed(d)' PROVE Written(d)'
  <2>1. Listed(d) /\ Written(d) /\ EntryOK(d)
    BY <1>1, <1>2, <1>6 DEF WrittenInv, EntriesOK, Listed
  <2>2. d.at \in Nat /\ d.end \in Nat /\ d.end <= Len(code) /\ Len(code) \in Nat
    BY <1>1, <2>1 DEF EntryOK, Typed
  <2>3. ASSUME NEW b \in d.at + 1 .. d.end, UsesLabel(d) => b <= FieldAt(d)
        PROVE b \in 1 .. Len(code) /\ b \notin FieldAt(e) + 1 .. e.end
    <3>1. CASE d = e
      BY <1>3, <1>5, <2>2, <2>3, <3>1
    <3>2. CASE d # e
      <4>1. d.end <= e.at \/ e.end <= d.at
        BY <1>1, <1>3, <2>1, <3>2, Apart
      <4> QED
        BY <1>5, <2>2, <2>3, <4>1
    <3> QED
      BY <3>1, <3>2
  <2>4. \A b \in d.at + 1 .. d.end : (UsesLabel(d) => b <= FieldAt(d)) => code'[b] = code[b]
    BY <1>4, <2>3 DEF Writes
  <2> QED
    BY <1>2, <2>1, <2>4, WrittenKept
<1> QED
  BY <1>6 DEF WrittenInv

\* Every step keeps what is written.
LEMMA WrittenStep == CodeInv /\ WrittenInv /\ [AsmNext]_vars => WrittenInv'
<1> SUFFICES ASSUME CodeInv, WrittenInv, [AsmNext]_vars PROVE WrittenInv'
  OBVIOUS
<1>1. CASE EndOfFile \/ WriteObject \/ DisassembleOne \/ FetchOne \/ UNCHANGED vars
  <2>1. UNCHANGED <<target, listing, code>>
    BY <1>1 DEF EndOfFile, WriteObject, DisassembleOne, FetchOne, ReadOne, vars, sourceVars, objectVars
  <2> QED
    BY <2>1, WrittenStays
<1> QED
  BY <1>1, ParseWrites, ApplyLeaves DEF AsmNext

\* In the first state nothing is listed.
LEMMA WrittenInit == AsmInit => WrittenInv
<1> SUFFICES ASSUME AsmInit PROVE WrittenInv
  OBVIOUS
<1>1. Len(listing) = 0
  BY DEF AsmInit
<1> QED
  BY <1>1 DEF WrittenInv, Listed

\* The bytes of what is left of the section.
LEMMA RemainingBytes ==
  ASSUME Typed
  PROVE \A j \in 1 .. Len(Remaining) : Remaining[j] = code[offset + j]
<1>1. PICK p, n : p = offset + 1 /\ n = Len(code)
  OBVIOUS
<1>2. code \in Seq(Byte) /\ offset \in Nat /\ offset <= n /\ n \in Nat /\ p \in Int /\ n \in Int
  BY <1>1 DEF Typed
<1>3. \A k \in p .. n : code[k] \in Byte
  BY <1>1, <1>2
<1>4. \A j \in 1 .. n - p + 1 : SubSeq(code, p, n)[j] = code[p + j - 1]
  BY <1>2, <1>3, SubSeqProperties
<1>5. Len(Remaining) = n - offset /\ Remaining = SubSeq(code, p, n)
  BY <1>1, RemainingString DEF Remaining
<1>6. ASSUME NEW j \in 1 .. Len(Remaining) PROVE Remaining[j] = code[offset + j]
  <2>1. j \in 1 .. n - p + 1 /\ p + j - 1 = offset + j
    BY <1>1, <1>2, <1>5, <1>6
  <2> QED
    BY <1>4, <1>5, <2>1
<1> QED
  BY <1>6

-----------------------------------------------------------------------------
(* What the disassembler gives back.                                       *)

\* The marker of a statement that is taken.
LEMMA AcceptedMarker ==
  ASSUME NEW s, Accepted(s)
  PROVE MarkerOf(s) \in 0 .. 10 /\ MarkerOf(s) = MeantMarker(s)
<1>1. MarkerOf(s) \in 0 .. 10
  BY MarkerRange DEF MarkerOf
<1>2. Marker.none = 0 /\ "" \notin DOMAIN Marker
  BY SMT DEF Marker
<1>3. CASE s.mark = ""
  BY <1>1, <1>2, <1>3 DEF MarkerOf, MeantMarker, parseMarkerName
<1>4. CASE s.mark # ""
  <2>1. MarkerOf(s) # Marker.none
    BY <1>4 DEF Accepted
  <2>2. s.mark \in DOMAIN Marker
    BY <2>1 DEF MarkerOf, parseMarkerName
  <2> QED
    BY <1>1, <1>4, <2>2 DEF MarkerOf, MeantMarker, parseMarkerName
<1> QED
  BY <1>3, <1>4

\* An instruction that came back is the statement of its line.
LEMMA ReadBackMeans ==
  ASSUME NEW e, Accepted(e.statement), NEW i, i = Handed(e.statement), NEW end, end = e.end - e.at,
         NEW found, ReadBack(found, i, end, target.is64)
  PROVE ReadsAs(found, e)
<1>1. PICK s, meant, is64, ops :
        s = e.statement /\ meant = MeantOperands(s) /\ is64 = target.is64 /\ ops = i.ops
  OBVIOUS
<1>2. i.name = s.name /\ i.marker = MeantMarker(s)
  BY <1>1, AcceptedMarker DEF Handed
<1>3. PICK operands : operands = [k \in 1 .. Len(s.ops) |-> parseOperand(s.ops[k]).ops]
  OBVIOUS
<1>4. /\ s.kind = "instruction" /\ IsStatement(s) /\ ops = Matched(s.name, operands)
      /\ \A k \in 1 .. Len(s.ops) : parseOperand(s.ops[k]).ok
  BY <1>1, <1>3 DEF Accepted, Handed
<1>5. /\ Len(meant) = Len(ops)
      /\ PlainStatement(s) =>
           /\ meant = ops
           /\ \A m \in 1 .. 4 : AddressPlace(s.name, m) /\ ops[m + 1] = GPR(4) => ops[m + 2] = Imm(1)
  BY <1>1, <1>3, <1>4, MeantMatched
<1>6. \A x, y : Agrees(x, y, is64) <=> SameOperand(x, y)
  BY <1>1 DEF Agrees, SameOperand, IsLabel
<1>7. CASE SameAs(found, i, end, is64)
  <2>1. /\ found.name = s.name /\ found.marker = MeantMarker(s) /\ found.size = end
        /\ Len(found.ops) = Len(ops) /\ \A k \in 1 .. Len(ops) : SameOperand(ops[k], found.ops[k])
    BY <1>1, <1>2, <1>6, <1>7 DEF SameAs
  <2>2. PlainStatement(s) => \A k \in 1 .. Len(meant) : SameOperand(meant[k], found.ops[k])
    BY <1>5, <2>1
  <2> QED
    BY <1>1, <1>5, <2>1, <2>2 DEF ReadsAs
<1>8. CASE \E m \in 1 .. 4 : AddressPlace(i.name, m) /\ SameMemory(found, i, m, end, is64)
  <2>1. PICK m \in 1 .. 4 : AddressPlace(s.name, m) /\ SameMemory(found, i, m, end, is64)
    BY <1>2, <1>8
  <2>2. /\ found.name = s.name /\ found.marker = MeantMarker(s) /\ found.size = end
        /\ Len(found.ops) = Len(ops)
        /\ \A k \in 1 .. Len(ops) : k # m + 2 => SameOperand(ops[k], found.ops[k])
        /\ found.ops[m + 2] = ops[m + 2] \/ (ops[m + 1] = GPR(4) /\ found.ops[m + 2] = Imm(1))
    BY <1>1, <1>2, <1>6, <2>1 DEF SameMemory
  <2>3. ASSUME PlainStatement(s), NEW k \in 1 .. Len(meant)
        PROVE SameOperand(meant[k], found.ops[k])
    <3>1. meant = ops /\ (ops[m + 1] = GPR(4) => ops[m + 2] = Imm(1))
      BY <1>5, <2>1, <2>3
    <3>2. found.ops[m + 2] = ops[m + 2]
      BY <2>2, <3>1
    <3>3. CASE k # m + 2
      BY <2>2, <2>3, <3>1, <3>3
    <3>4. CASE k = m + 2
      BY <3>1, <3>2, <3>4 DEF SameOperand
    <3> QED
      BY <3>3, <3>4
  <2> QED
    BY <1>1, <1>5, <2>2, <2>3 DEF ReadsAs
<1> QED
  BY <1>1, <1>7, <1>8 DEF ReadBack

\* What is left of the section from a line on carries the bytes the emitter wrote for it.
LEMMA RemainingCarries ==
  ASSUME CodeInv, NEW e, Listed(e), Written(e), offset = e.at,
         NEW i, i = Handed(e.statement), NEW r, r = Emission(e)
  PROVE Carries(Remaining, i, r, target.is64)
<1>1. Typed /\ EntryOK(e)
  BY DEF CodeInv, EntriesOK
<1>2. PICK bytes, at, m : bytes = Remaining /\ at = e.at /\ m = Len(r.bytes)
  OBVIOUS
<1>3. /\ bytes \in Seq(Byte) /\ Len(bytes) = Len(code) - at
      /\ \A j \in 1 .. Len(bytes) : bytes[j] = code[at + j]
  BY <1>1, <1>2, RemainingString, RemainingBytes
<1>4. /\ at \in Nat /\ e.end = at + m /\ e.end <= Len(code) /\ Len(code) \in Nat
      /\ r.bytes \in Seq(Byte) /\ EmittedFor(e, r)
      /\ \A j \in 1 .. m : (UsesLabel(e) => at + j <= FieldAt(e)) => code[at + j] = r.bytes[j]
  <2>1. e.end <= Len(code) /\ Len(code) \in Nat
    BY <1>1, LenProperties DEF EntryOK, Typed
  <2>2. /\ e.at \in Nat /\ EmittedFor(e, r) /\ e.end = e.at + m
        /\ \A j \in 1 .. m : (UsesLabel(e) => e.at + j <= FieldAt(e)) => code[e.at + j] = r.bytes[j]
    BY <1>2 DEF Written
  <2>3. r.bytes \in Seq(Byte)
    BY <2>2 DEF EmittedFor
  <2> QED
    BY <1>2, <2>1, <2>2, <2>3, Zenon
<1>5. m \in Nat /\ m <= Len(bytes)
  <2>1. m \in Nat
    <3>1. r.bytes \in Seq(Byte)
      BY <1>4
    <3> QED
      BY <1>2, <3>1, LenProperties
  <2>2. at + m <= Len(code) /\ Len(bytes) = Len(code) - at /\ at \in Nat /\ Len(code) \in Nat
    BY <1>3, <1>4
  <2> QED
    BY <2>1, <2>2
<1>6. UsesLabel(e) => FieldAt(e) = at + m - ValueWidth(i, target.is64) /\ ValueWidth(i, target.is64) \in {4, 8}
  <2>1. SUFFICES ASSUME UsesLabel(e)
                 PROVE FieldAt(e) = at + m - ValueWidth(i, target.is64)
                         /\ ValueWidth(i, target.is64) \in {4, 8}
    OBVIOUS
  <2>2. PICK c : c = ClassOf(e.statement.name)
    OBVIOUS
  <2>3. c \in BranchClasses \cup AddressClasses
    BY <1>1, <2>1, <2>2 DEF EntryOK
  <2>4. (c \in BranchClasses) <=> IsBranch(e)
    <3>1. (c \in BranchClasses) <=> (Class[c][2] \in {"BranchRel32", "RegCondBranch"})
      BY <2>3, BranchByClass
    <3> QED
      BY <2>2, <3>1 DEF IsBranch, FormOf
  <2>5. i.name = e.statement.name
    BY DEF Handed
  <2>6. ValueWidth(i, target.is64) = FieldWidth(e)
    BY <2>2, <2>4, <2>5 DEF ValueWidth, FieldWidth
  <2>7. FieldAt(e) = e.end - FieldWidth(e) /\ FieldWidth(e) \in {4, 8}
    BY DEF FieldAt, FieldWidth
  <2>8. PICK w, end : w = FieldWidth(e) /\ end = e.end
    OBVIOUS
  <2>9. FieldAt(e) = end - w /\ w \in {4, 8} /\ end = at + m
    BY <1>4, <2>7, <2>8
  <2>10. end - w = at + m - w
    BY <1>4, <1>5, <2>9
  <2> QED
    BY <2>6, <2>8, <2>9, <2>10
<1>7. r.fixups = <<>> => ~UsesLabel(e)
  <2>1. SUFFICES ASSUME UsesLabel(e) PROVE r.fixups # <<>>
    OBVIOUS
  <2>2. PICK i1, start : Leaves(r, start, FieldWidth(e),
                                FieldFixup(Len(start), LabelOf(e), IsBranch(e), target.is64))
    BY <1>4, <2>1 DEF EmittedFor
  <2>3. PICK f : r.fixups = <<f>>
    BY <2>2 DEF Leaves
  <2> QED
    BY <2>3
<1>8. PICK w : w = ValueWidth(i, target.is64)
  OBVIOUS
<1>9. ASSUME NEW j \in 1 .. m, r.fixups = <<>> \/ j <= m - w PROVE bytes[j] = r.bytes[j]
  <2>1. UsesLabel(e) => at + j <= FieldAt(e)
    BY <1>4, <1>5, <1>6, <1>7, <1>8, <1>9
  <2>2. j \in 1 .. Len(bytes)
    BY <1>3, <1>4, <1>5
  <2> QED
    BY <1>3, <1>4, <2>1, <2>2
<1> QED
  BY <1>2, <1>3, <1>5, <1>8, <1>9 DEF Carries

\* At the start of a line getInstruction reads the line.
LEMMA LineReadBack ==
  ASSUME CodeInv, WrittenInv, NEW e, Listed(e), offset = e.at,
         NEW found, found = GetInstruction(Remaining, target.is64)
  PROVE /\ found.ok = TRUE /\ found.size = e.end - e.at /\ ReadsAs(found, e)
<1>1. Typed /\ Written(e)
  BY DEF CodeInv, WrittenInv
<1>2. PICK s, i, r, is64, bytes, n :
        /\ s = e.statement /\ i = Handed(s) /\ r = Emission(e) /\ is64 = target.is64
        /\ bytes = Remaining /\ n = Len(r.bytes)
  OBVIOUS
<1>3. /\ Accepted(s) /\ r.ok /\ r = Encode(i, is64) /\ e.at \in Nat /\ e.end = e.at + n
      /\ r.bytes \in Seq(Byte) /\ is64 \in BOOLEAN
  BY <1>1, <1>2 DEF Written, Emission, EmittedFor, Typed
<1>4. Carries(bytes, i, r, is64)
  BY <1>1, <1>2, RemainingCarries
<1>5. Filled(i, s.ops) /\ i.name \in DOMAIN Records /\ i.marker \in 0 .. 10
  <2>1. PICK operands, marker : /\ operands = [k \in 1 .. Len(s.ops) |-> parseOperand(s.ops[k]).ops]
                                /\ marker = MarkerOf(s)
    OBVIOUS
  <2>2. i = [name |-> s.name, marker |-> marker, ops |-> Matched(s.name, operands)]
    BY <1>2, <2>1 DEF Handed
  <2>3. s.kind = "instruction" /\ IsStatement(s) /\ \A k \in 1 .. Len(s.ops) : parseOperand(s.ops[k]).ok
    BY <1>3 DEF Accepted
  <2>4. Filled([name |-> s.name, marker |-> marker, ops |-> Matched(s.name, operands)], s.ops)
    BY <2>1, <2>3, MatchedFilled
  <2>5. s.name \in DOMAIN Records
    BY <2>3 DEF IsStatement
  <2>6. marker \in 0 .. 10
    BY <1>3, <2>1, AcceptedMarker
  <2> QED
    BY <2>2, <2>4, <2>5, <2>6
<1>6. ReadBack(found, i, n, is64)
  <2>1. ReadBack(GetInstruction(bytes, is64), i, Len(r.bytes), is64)
    BY <1>3, <1>4, <1>5, EncodingReadsBack
  <2> QED
    BY <1>2, <2>1
<1>7. n \in Nat /\ n = e.end - e.at
  <2>1. n \in Nat
    BY <1>2, <1>3, LenProperties
  <2>2. PICK at, end : at = e.at /\ end = e.end /\ at \in Nat /\ end = at + n
    BY <1>3
  <2> QED
    BY <2>1, <2>2
<1>8. ReadsAs(found, e)
  BY <1>2, <1>3, <1>6, <1>7, ReadBackMeans
<1>9. found.ok = TRUE /\ found.size = n
  BY <1>6 DEF ReadBack, SameAs, SameMemory
<1> QED
  BY <1>7, <1>8, <1>9

-----------------------------------------------------------------------------
(* The section is read line by line.                                       *)

\* What getInstruction has returned: the first lines of the listing, up to the offset.
LinesRead ==
  /\ \E S : read \in Seq(S)
  /\ Len(read) <= Len(listing)
  /\ offset = IF Len(read) = 0 THEN 0 ELSE listing[Len(read)].end
  /\ \A k \in 1 .. Len(read) : ReadsAs(read[k], listing[k])
ReadInv ==
  /\ phase \in {"parsing", "fixups", "error"} => read = <<>>
  /\ phase = "disassembling" => LinesRead

\* Short of the end of the section a reader stands at the line after those it read.
LEMMA NextLineHere ==
  ASSUME CodeInv, LinesRead, offset < Len(code)
  PROVE \E e : /\ Listed(e) /\ offset = e.at
               /\ Len(read) \in Nat /\ Len(read) + 1 <= Len(listing) /\ e = listing[Len(read) + 1]
<1>1. PICK n, m : n = Len(read) /\ m = Len(listing)
  OBVIOUS
<1>2. n \in Nat /\ n <= m /\ offset = (IF n = 0 THEN 0 ELSE listing[n].end)
  BY <1>1, LenProperties DEF LinesRead
<1>3. m \in Nat /\ (listing = <<>> <=> m = 0)
  <2>1. PICK S : listing \in Seq(S)
    BY DEF CodeInv, Tiles
  <2> QED
    BY <1>1, <2>1, LenProperties, EmptySeq
<1>4. Len(code) = IF m = 0 THEN 0 ELSE listing[m].end
  BY <1>1, <1>3 DEF CodeInv, Tiles
<1>5. n # m
  <2>1. SUFFICES ASSUME n = m PROVE Len(code) = offset
    BY DEF CodeInv, Typed
  <2> QED
    BY <1>2, <1>4, <2>1
<1>6. n + 1 \in 1 .. m /\ n + 1 <= m /\ n + 1 - 1 = n /\ (n + 1 = 1 <=> n = 0)
  BY <1>2, <1>3, <1>5
<1>7. PICK k : k = n + 1
  OBVIOUS
<1>8. k \in 1 .. m /\ k <= m /\ k - 1 = n /\ (k = 1 <=> n = 0)
  BY <1>2, <1>3, <1>6, <1>7
<1>9. listing[k].at = IF k = 1 THEN 0 ELSE listing[k - 1].end
  BY <1>1, <1>8 DEF CodeInv, Tiles
<1>10. listing[k].at = offset
  BY <1>2, <1>8, <1>9
<1> QED
  BY <1>1, <1>2, <1>7, <1>8, <1>10 DEF Listed

\* The relation of an instruction read to a line depends on the target alone.
LEMMA ReadsAsKept ==
  ASSUME NEW found, NEW e, target' = target
  PROVE ReadsAs(found, e)' <=> ReadsAs(found, e)
<1>1. \A x, y : SameOperand(x, y)' <=> SameOperand(x, y)
  BY DEF SameOperand
<1> QED
  BY <1>1 DEF ReadsAs

\* getInstruction reads the next line.
LEMMA DisassembleReads ==
  ASSUME CodeInv, WrittenInv, ReadInv, DisassembleOne
  PROVE ReadInv'
<1>1. /\ phase = "disassembling" /\ LinesRead /\ offset < Len(code)
      /\ UNCHANGED <<phase, listing, target>>
  BY DEF ReadInv, DisassembleOne, ReadOne, sourceVars
<1>2. PICK e, n, found : /\ Listed(e) /\ offset = e.at /\ n = Len(read) /\ n \in Nat
                         /\ n + 1 <= Len(listing) /\ e = listing[n + 1]
                         /\ found = GetInstruction(Remaining, target.is64)
  BY <1>1, NextLineHere
<1>3. found.ok = TRUE /\ found.size = e.end - e.at /\ ReadsAs(found, e)
  BY <1>2, LineReadBack
<1>4. read' = Append(read, found) /\ offset' = offset + found.size
  BY <1>2 DEF DisassembleOne, ReadOne
<1>5. e.at \in Nat /\ e.end \in Nat
  BY <1>2 DEF CodeInv, EntriesOK, EntryOK
<1>6. offset' = e.end
  BY <1>2, <1>3, <1>4, <1>5
<1>7. PICK T : /\ read' \in Seq(T) /\ Len(read') = n + 1 /\ read'[n + 1] = found
               /\ \A k \in 1 .. n : read'[k] = read[k]
  <2>1. PICK S : read \in Seq(S)
    BY <1>1 DEF LinesRead
  <2>2. PICK T : T = S \cup {found}
    OBVIOUS
  <2>3. read \in Seq(T) /\ found \in T
    BY <2>1, <2>2
  <2> QED
    BY <1>2, <1>4, <2>3, AppendProperties
<1>8. ASSUME NEW k \in 1 .. Len(read') PROVE ReadsAs(read'[k], listing[k])
  <2>1. k \in 1 .. n \/ k = n + 1
    BY <1>2, <1>7, <1>8
  <2>2. CASE k \in 1 .. n
    BY <1>1, <1>2, <1>7, <2>2 DEF LinesRead
  <2>3. CASE k = n + 1
    BY <1>2, <1>3, <1>7, <2>3
  <2> QED
    BY <2>1, <2>2, <2>3
<1>9. ASSUME NEW k \in 1 .. Len(read') PROVE ReadsAs(read[k], listing[k])'
  <2>1. PICK x, y : x = read'[k] /\ y = listing[k]
    OBVIOUS
  <2>2. ReadsAs(x, y)
    BY <1>8, <1>9, <2>1
  <2>3. ReadsAs(x, y)'
    BY <1>1, <2>2, ReadsAsKept
  <2>4. x = read'[k] /\ y = listing'[k]
    BY <1>1, <2>1
  <2> QED
    BY <2>3, <2>4
<1>10. n + 1 # 0 /\ Len(read') <= Len(listing')
  BY <1>1, <1>2, <1>7
<1>11. offset' = IF Len(read') = 0 THEN 0 ELSE listing'[Len(read')].end
  BY <1>1, <1>2, <1>6, <1>7, <1>10
<1>12. \E S : read' \in Seq(S)
  BY <1>7
<1>13. LinesRead'
  BY <1>9, <1>10, <1>11, <1>12 DEF LinesRead
<1> QED
  BY <1>1, <1>13 DEF ReadInv

\* The section is handed to a reader from its first byte.
LEMMA WriteReads ==
  ASSUME CodeInv, ReadInv, WriteObject
  PROVE ReadInv'
<1>1. read' = <<>> /\ offset' = 0 /\ listing' = listing /\ phase' \in {"disassembling", "executing"}
  BY DEF ReadInv, WriteObject, readVars, sourceVars, CodeInv, Typed
<1>2. PICK r : r = read'
  OBVIOUS
<1>3. r \in Seq({}) /\ Len(r) = 0
  BY <1>1, <1>2, EmptySeq, LenProperties
<1>4. Len(listing) \in Nat
  BY LenProperties DEF CodeInv, Tiles
<1>5. 0 <= Len(listing) /\ 1 .. 0 = {}
  BY <1>4
<1>6. LinesRead'
  BY <1>1, <1>2, <1>3, <1>5 DEF LinesRead
<1> QED
  BY <1>1, <1>6 DEF ReadInv

\* Every step keeps what was read.
LEMMA ReadStep == CodeInv /\ WrittenInv /\ ReadInv /\ [AsmNext]_vars => ReadInv'
<1> SUFFICES ASSUME CodeInv, WrittenInv, ReadInv, [AsmNext]_vars PROVE ReadInv'
  OBVIOUS
<1>1. CASE ParseStatement
  <2>1. phase = "parsing" /\ read = <<>>
    BY <1>1 DEF ParseStatement, ReadInv
  <2>2. phase' \in {"parsing", "error"} /\ read' = read
    <3>1. PICK s \in Menu[line] : \/ parseCPUOrArchDirective(s)
                                  \/ parseModeDirective(s)
                                  \/ DefineLabel(s)
                                  \/ assembleInstruction(s)
      BY <1>1 DEF ParseStatement
    <3>2. CASE parseCPUOrArchDirective(s)
      BY <2>1, <3>2 DEF parseCPUOrArchDirective, Error, readVars
    <3>3. CASE parseModeDirective(s)
      BY <2>1, <3>3 DEF parseModeDirective, Error, readVars
    <3>4. CASE DefineLabel(s)
      BY <2>1, <3>4 DEF DefineLabel, readVars
    <3>5. CASE assembleInstruction(s)
      BY <2>1, <3>5 DEF assembleInstruction, EmitInstruction, Error, readVars
    <3> QED
      BY <3>1, <3>2, <3>3, <3>4, <3>5
  <2> QED
    BY <2>1, <2>2 DEF ReadInv
<1>2. CASE EndOfFile
  BY <1>2 DEF EndOfFile, readVars, ReadInv
<1>3. CASE ApplyFixup
  BY <1>3 DEF ApplyFixup, readVars, ReadInv
<1>4. CASE FetchOne
  BY <1>4 DEF FetchOne, ReadOne, ReadInv
<1>5. CASE UNCHANGED vars
  <2>1. UNCHANGED <<phase, read, listing, offset, target>>
    BY <1>5 DEF vars, sourceVars, readVars
  <2>2. \A k : ReadsAs(read[k], listing[k])' <=> ReadsAs(read[k], listing[k])
    <3>1. SUFFICES ASSUME NEW k PROVE ReadsAs(read[k], listing[k])' <=> ReadsAs(read[k], listing[k])
      OBVIOUS
    <3>2. PICK x, y : x = read[k] /\ y = listing[k]
      OBVIOUS
    <3>3. x = read'[k] /\ y = listing'[k]
      BY <2>1, <3>2
    <3>4. ReadsAs(x, y)' <=> ReadsAs(x, y)
      BY <2>1, ReadsAsKept
    <3> QED
      BY <3>2, <3>3, <3>4
  <2>3. LinesRead => LinesRead'
    BY <2>1, <2>2 DEF LinesRead
  <2> QED
    BY <2>1, <2>3 DEF ReadInv
<1> QED
  BY <1>1, <1>2, <1>3, <1>4, <1>5, WriteReads, DisassembleReads DEF AsmNext

\* The inductive invariant of the round trip: every line of the listing is in the section as
\* encodeInstruction wrote it, label fields apart, and what the disassembler has returned are
\* the first lines.
THEOREM RoundTripCorrect == AsmSpec => [](WrittenInv /\ ReadInv)
<1>1. AsmInit => WrittenInv /\ ReadInv
  BY WrittenInit DEF AsmInit, ReadInv
<1>2. CodeInv /\ WrittenInv /\ ReadInv /\ [AsmNext]_vars => WrittenInv' /\ ReadInv'
  BY WrittenStep, ReadStep
<1> QED
  BY <1>1, <1>2, CodeCorrect, PTL DEF AsmSpec

\* For every source file and every target the disassembler gives back the source: line by line
\* the same instruction, marker, size and operands (encodeInstruction against getInstruction).
THEOREM SourceReadBack == AsmSpec => []DisassemblyFaithful
<1>1. ReadInv => DisassemblyFaithful
  BY DEF ReadInv, LinesRead, DisassemblyFaithful
<1> QED
  BY <1>1, RoundTripCorrect, PTL

\* The disassembler refuses no instruction the assembler wrote, and every call takes it forward.
THEOREM SourceReadToItsEnd == AsmSpec => []DisassemblyFinishes
<1>1. CodeInv /\ WrittenInv /\ ReadInv => DisassemblyFinishes
  <2> SUFFICES ASSUME CodeInv, WrittenInv, ReadInv, phase = "disassembling", offset < Len(code)
               PROVE GoesOn(GetInstruction(Remaining, target.is64))
    BY DEF DisassemblyFinishes
  <2>1. PICK e, found : Listed(e) /\ offset = e.at /\ found = GetInstruction(Remaining, target.is64)
    BY NextLineHere DEF ReadInv
  <2>2. found.ok = TRUE /\ found.size = e.end - e.at
    BY <2>1, LineReadBack
  <2>3. e.at \in Nat /\ e.end \in Nat /\ e.at < e.end
    BY <2>1 DEF CodeInv, EntriesOK, EntryOK
  <2>4. found.size > 0
    BY <2>2, <2>3
  <2> QED
    BY <2>1, <2>2, <2>4 DEF GoesOn
<1> QED
  BY <1>1, CodeCorrect, RoundTripCorrect, PTL
==============================================================================
