---------------------------- MODULE LinkerProofs ----------------------------
(***************************************************************************)
(* Theorems about the linker.  Of the layout, for every list of objects,   *)
(* every set of alignments and every page size: the contributions lie      *)
(* apart and aligned.  Of what is written, for every list of well-formed   *)
(* objects: the output sections lie in order and on their pages, a name    *)
(* has one definition, each field holds the value of its relocation, and   *)
(* the segments carry every section to its address.                        *)
(***************************************************************************)
EXTENDS Linker, TLAPS

LOCAL INSTANCE FiniteSetsExt


Multiple(x, unit) == \E k \in Nat : x = k * unit

LEMMA AlignUpFacts ==
  ASSUME NEW value \in Nat, NEW unit \in Nat \ {0}
  PROVE  /\ AlignUp(value, unit) \in Nat
         /\ AlignUp(value, unit) >= value
         /\ Multiple(AlignUp(value, unit), unit)
<1> DEFINE total == value + unit - 1
           quotient == total \div unit
<1>1. total \in Nat /\ total >= 0
  OBVIOUS
<1>2. quotient \in Nat /\ (total % unit) \in 0..(unit - 1)
      /\ total = quotient * unit + (total % unit)
  BY <1>1
<1>3. quotient * unit \in Nat
  BY <1>2
<1>4. quotient * unit >= value
  BY <1>2, <1>3
<1>5. AlignUp(value, unit) = quotient * unit
  BY DEF AlignUp
<1> QED
  BY <1>2, <1>3, <1>4, <1>5 DEF Multiple

LEMMA MultipleOfMultiple ==
  ASSUME NEW x \in Nat, NEW y \in Nat, NEW unit \in Nat \ {0}, NEW m \in Nat,
         Multiple(x, m * unit), Multiple(y, unit)
  PROVE  \E k \in 0..(x + y) : x + y = k * unit
<1>1. PICK i \in Nat : x = i * (m * unit)
  BY DEF Multiple
<1>2. PICK j \in Nat : y = j * unit
  BY DEF Multiple
<1> DEFINE k == i * m + j
<1>3. i * m \in Nat /\ k \in Nat
  OBVIOUS
<1>4. x + y = k * unit
  <2>1. i * (m * unit) = (i * m) * unit
    OBVIOUS
  <2>2. (i * m + j) * unit = (i * m) * unit + j * unit
    BY <1>3
  <2> QED
    BY <1>1, <1>2, <2>1, <2>2
<1>5. k <= k * unit
  BY <1>3
<1> QED
  BY <1>3, <1>4, <1>5

-----------------------------------------------------------------------------
LEMMA AlignmentFacts ==
  ASSUME NEW a \in Alignment, NEW b \in Alignment, a <= b
  PROVE  /\ a \in Nat \ {0} /\ b \in Nat \ {0}
         /\ \E m \in Nat : b = m * a
BY AlignmentAssumption

LEMMA FilesTyped ==
  ASSUME files \in Input
  PROVE  /\ Len(files) \in Nat /\ 1 \in Objects
         /\ \A o \in Objects : Sections(o) \in Seq(InputSection)
<1> DEFINE object_ == [sections : Seq(InputSection), symbols : Seq([name : STRING,
         global : BOOLEAN, section : Nat, value : Nat]), relocs : Seq([section : Nat,
         place : Nat, symbol : Nat, kind : STRING, addend : Int]),
         class : 1..2, windowed : BOOLEAN, pae : BOOLEAN]
<1>1. files \in Seq(object_) /\ files # <<>>
  BY InputAssumption
<1>2. \A x \in object_ : x.sections \in Seq(InputSection)
  OBVIOUS
<1> HIDE DEF object_
<1>3. Len(files) \in Nat /\ Len(files) # 0 /\ \A o \in 1..Len(files) : files[o] \in object_
  BY <1>1
<1> QED
  BY <1>2, <1>3 DEF Objects, Sections

\* The tables and where the merged sections hold their input sections.
TypeInv ==
  /\ files \in Input /\ separate \in BOOLEAN
  /\ object \in Nat \ {0} /\ item \in Nat \ {0}
  /\ size \in [Merged -> Nat]
  /\ alignment \in [Merged -> Alignment]
  /\ length \in Nat
  /\ boundary \in [Output -> Nat \X Nat]

Known(c) ==
  /\ c \in Objects \X Nat /\ c[2] \in DOMAIN Sections(c[1])
  /\ MergedOf(c) \in Merged

Before(start, end, other) == start + end <= other
Apart(start, end, otherStart, otherEnd) ==
  Before(start, end, otherStart) \/ Before(otherStart, otherEnd, start)

LocalInv ==
  /\ \A c \in DOMAIN local :
       /\ Known(c) /\ local[c] \in Nat
       /\ Before(local[c], SizeOf(c), size[MergedOf(c)])
       /\ AlignOf(c) <= alignment[MergedOf(c)]
       /\ Multiple(local[c], AlignOf(c))
  /\ \A c, d \in DOMAIN local :
       c # d /\ MergedOf(c) = MergedOf(d) => Apart(local[c], SizeOf(c), local[d], SizeOf(d))

BaseInv ==
  /\ \A m \in DOMAIN base :
       /\ m \in Merged /\ base[m] \in Nat
       /\ Before(base[m], size[m], length)
       /\ Multiple(base[m], alignment[m])
  /\ \A m, n \in DOMAIN base : m # n => Apart(base[m], size[m], base[n], size[n])

\* What the loops have still to do is not done yet.
ReadInv ==
  stage = "read" =>
    /\ base = <<>>
    /\ \A c \in DOMAIN local : c[1] < object \/ (c[1] = object /\ c[2] < item)
PlaceInv ==
  /\ stage = "open" =>
       \A m \in DOMAIN base : \E k \in DOMAIN SectionOrder : k < item /\ m[2] = SectionOrder[k]
  /\ stage = "place" =>
       /\ item \in DOMAIN SectionOrder
       /\ \A m \in DOMAIN base :
            \E k \in DOMAIN SectionOrder :
              (k < item \/ (k = item /\ m[1] < object)) /\ m[2] = SectionOrder[k]

LayoutInv == TypeInv /\ LocalInv /\ BaseInv /\ ReadInv /\ PlaceInv

LEMMA KnownTyped ==
  ASSUME files \in Input, NEW c, Known(c)
  PROVE  /\ SizeOf(c) \in Nat /\ AlignOf(c) \in Alignment /\ AlignOf(c) \in Nat \ {0}
<1>1. Sections(c[1]) \in Seq(InputSection) /\ c[2] \in DOMAIN Sections(c[1])
  BY FilesTyped DEF Known
<1>2. Sections(c[1])[c[2]] \in InputSection
  BY <1>1
<1> QED
  BY <1>2, AlignmentAssumption DEF SizeOf, AlignOf, InputSection

LEMMA LayoutInvInit == LayoutInit => LayoutInv
<1> SUFFICES ASSUME LayoutInit PROVE LayoutInv
  OBVIOUS
<1>1. TypeInv
  BY AlignmentAssumption DEF LayoutInit, TypeInv, Output
<1>2. DOMAIN local = {} /\ DOMAIN base = {} /\ base = <<>> /\ stage = "read"
  BY DEF LayoutInit
<1> QED
  BY <1>1, <1>2 DEF LayoutInv, LocalInv, BaseInv, ReadInv, PlaceInv

-----------------------------------------------------------------------------
\* The input does not change, and what is derived from it neither.
LEMMA InputKept ==
  ASSUME files' = files
  PROVE  /\ Objects' = Objects /\ Merged' = Merged
         /\ \A o : Sections(o)' = Sections(o)
         /\ \A c : Known(c)' = Known(c) /\ MergedOf(c)' = MergedOf(c)
                  /\ SizeOf(c)' = SizeOf(c) /\ AlignOf(c)' = AlignOf(c)
BY DEF Objects, Merged, Sections, Known, MergedOf, SizeOf, AlignOf

\* Steps that leave the tables alone.
LEMMA LocalInvKept ==
  ASSUME LocalInv, files' = files, UNCHANGED readVars
  PROVE  LocalInv'
<1>1. local' = local /\ size' = size /\ alignment' = alignment
  BY DEF readVars
<1> QED
  BY <1>1, InputKept DEF LocalInv

LEMMA BaseInvKept ==
  ASSUME BaseInv, files' = files, base' = base, size' = size, alignment' = alignment,
         length \in Nat, length' \in Nat, length' >= length,
         size \in [Merged -> Nat]
  PROVE  BaseInv'
<1>1. \A m \in DOMAIN base : Before(base[m], size[m], length')
  <2> TAKE m \in DOMAIN base
  <2>1. size[m] \in Nat /\ base[m] \in Nat /\ Before(base[m], size[m], length)
    BY DEF BaseInv
  <2> QED
    BY <2>1 DEF Before
<1> QED
  BY <1>1, InputKept DEF BaseInv

LEMMA ReadSectionLocal ==
  ASSUME TypeInv, LocalInv, ReadInv, ReadSection
  PROVE  LocalInv' /\ size' \in [Merged -> Nat] /\ alignment' \in [Merged -> Alignment]
<1> DEFINE section == Sections(object)[item]
           m == <<object, section.output>>
           c0 == <<object, item>>
<1>0. files' = files /\ object \in Objects /\ item \in Nat \ {0} /\ stage = "read"
      /\ files \in Input /\ size \in [Merged -> Nat] /\ alignment \in [Merged -> Alignment]
  BY DEF ReadSection, TypeInv
<1>1. CASE section.output = Dropped
  <2>1. UNCHANGED readVars
    BY <1>1 DEF ReadSection
  <2>2. size' = size /\ alignment' = alignment
    BY <2>1 DEF readVars
  <2> QED
    BY <1>0, <2>1, <2>2, LocalInvKept
<1>2. CASE section.output # Dropped
  <2>1. /\ local' = Extended(local, c0, LocalBase(m, section))
        /\ size' = [size EXCEPT ![m] = LocalEnd(m, section)]
        /\ alignment' = [alignment EXCEPT ![m] = MergedAlignment(m, section)]
    BY <1>2 DEF ReadSection
  <2>2. /\ item \in DOMAIN Sections(object)
        /\ section \in InputSection
    <3>1. Sections(object) \in Seq(InputSection) /\ item <= Len(Sections(object))
      BY <1>0, FilesTyped DEF ReadSection
    <3> QED
      BY <1>0, <3>1
  <2>3. /\ section.output \in Output /\ section.size \in Nat
        /\ section.align \in Alignment
    BY <1>2, <2>2 DEF InputSection
  <2>4. /\ m \in Merged /\ MergedOf(c0) = m
        /\ SizeOf(c0) = section.size /\ AlignOf(c0) = section.align
        /\ Known(c0)
    BY <1>0, <2>2, <2>3 DEF Merged, MergedOf, SizeOf, AlignOf, Known
  <2>5. c0 \notin DOMAIN local
    <3>1. \A c \in DOMAIN local : c[1] < object \/ (c[1] = object /\ c[2] < item)
      BY <1>0 DEF ReadInv
    <3> QED
      BY <1>0, <3>1 DEF TypeInv
  <2> DEFINE start == LocalBase(m, section)
             end == LocalEnd(m, section)
             unit == MergedAlignment(m, section)
  <2>6. /\ start \in Nat /\ start >= size[m] /\ size[m] \in Nat
        /\ Multiple(start, section.align)
    <3>1. size[m] \in Nat
      BY <1>0, <2>4
    <3>2. section.align \in Nat \ {0}
      BY <2>3, AlignmentAssumption
    <3> QED
      BY <3>1, <3>2, AlignUpFacts DEF LocalBase
  <2>7. end \in Nat /\ end = start + section.size
    BY <2>3, <2>6 DEF LocalEnd
  <2>8. unit \in Alignment /\ section.align <= unit /\ alignment[m] <= unit
    <3>1. alignment[m] \in Alignment
      BY <1>0, <2>4
    <3>2. alignment[m] \in Nat /\ section.align \in Nat
      BY <2>3, <3>1, AlignmentAssumption
    <3> QED
      BY <2>3, <3>1, <3>2 DEF MergedAlignment
  <2> HIDE DEF section, m, c0, start, end, unit
  <2>9. /\ size' \in [Merged -> Nat] /\ alignment' \in [Merged -> Alignment]
        /\ size'[m] = end /\ alignment'[m] = unit
        /\ \A n \in Merged : n # m => size'[n] = size[n] /\ alignment'[n] = alignment[n]
    BY <1>0, <2>1, <2>4, <2>7, <2>8 DEF start, end, unit
  <2>10. /\ DOMAIN local' = DOMAIN local \cup {c0} /\ local'[c0] = start
         /\ \A c \in DOMAIN local : local'[c] = local[c]
    <3>1. local' = Extended(local, c0, start)
      BY <2>1 DEF start
    <3> HIDE <2>1
    <3> QED
      BY <2>5, <3>1 DEF Extended
  <2>11. ASSUME NEW c \in DOMAIN local
         PROVE  /\ Known(c) /\ local[c] \in Nat /\ SizeOf(c) \in Nat
                /\ MergedOf(c) \in Merged
                /\ Before(local[c], SizeOf(c), size[MergedOf(c)])
                /\ Before(local[c], SizeOf(c), size'[MergedOf(c)])
                /\ AlignOf(c) <= alignment'[MergedOf(c)]
                /\ Multiple(local[c], AlignOf(c))
    <3>1. /\ Known(c) /\ local[c] \in Nat
          /\ Before(local[c], SizeOf(c), size[MergedOf(c)])
          /\ AlignOf(c) <= alignment[MergedOf(c)]
          /\ Multiple(local[c], AlignOf(c))
      BY DEF LocalInv
    <3>2. SizeOf(c) \in Nat /\ AlignOf(c) \in Nat /\ MergedOf(c) \in Merged
      BY <1>0, <3>1, KnownTyped DEF Known
    <3>3. CASE MergedOf(c) # m
      BY <2>9, <3>1, <3>2, <3>3
    <3>4. CASE MergedOf(c) = m
      <4>1. alignment[m] \in Nat /\ unit \in Nat
        BY <1>0, <2>4, <2>8, AlignmentAssumption
      <4>2. AlignOf(c) <= unit
        BY <2>8, <3>1, <3>2, <3>4, <4>1
      <4>3. local[c] + SizeOf(c) <= end
        BY <2>3, <2>6, <2>7, <3>1, <3>2, <3>4 DEF Before
      <4> QED
        BY <2>9, <3>1, <3>2, <3>4, <4>2, <4>3 DEF Before
    <3> QED
      BY <3>3, <3>4
  <2>12. ASSUME NEW c \in DOMAIN local'
         PROVE  /\ Known(c) /\ local'[c] \in Nat
                /\ Before(local'[c], SizeOf(c), size'[MergedOf(c)])
                /\ AlignOf(c) <= alignment'[MergedOf(c)]
                /\ Multiple(local'[c], AlignOf(c))
    <3>1. CASE c \in DOMAIN local
      BY <2>10, <2>11, <3>1
    <3>2. CASE c = c0
      <4>1. Before(start, section.size, end)
        BY <2>3, <2>6, <2>7 DEF Before
      <4> QED
        BY <2>4, <2>6, <2>8, <2>9, <2>10, <3>2, <4>1
    <3> QED
      BY <2>10, <3>1, <3>2
  <2>13. ASSUME NEW c \in DOMAIN local', NEW d \in DOMAIN local', c # d,
                MergedOf(c) = MergedOf(d)
         PROVE  Apart(local'[c], SizeOf(c), local'[d], SizeOf(d))
    <3>1. ASSUME NEW e \in DOMAIN local, MergedOf(e) = m
          PROVE  Before(local[e], SizeOf(e), start)
      BY <2>6, <2>11, <3>1 DEF Before
    <3>2. CASE c = c0 /\ d # c0
      BY <2>4, <2>10, <2>13, <3>1, <3>2 DEF Apart
    <3>3. CASE d = c0 /\ c # c0
      BY <2>4, <2>10, <2>13, <3>1, <3>3 DEF Apart
    <3>4. CASE c # c0 /\ d # c0
      BY <2>10, <2>13, <3>4 DEF LocalInv
    <3> QED
      BY <2>13, <3>2, <3>3, <3>4
  <2> QED
    BY <1>0, <2>9, <2>12, <2>13, InputKept DEF LocalInv
<1> QED
  BY <1>1, <1>2

LEMMA ReadSectionStep ==
  ASSUME LayoutInv, ReadSection
  PROVE  LayoutInv'
<1>1. LocalInv' /\ size' \in [Merged -> Nat] /\ alignment' \in [Merged -> Alignment]
  BY ReadSectionLocal DEF LayoutInv
<1>2. files' = files /\ separate' = separate /\ stage' = stage /\ object' = object
      /\ item' = item + 1 /\ length' = length /\ base' = base /\ boundary' = boundary
      /\ stage = "read"
  BY DEF ReadSection, placeVars
<1>3. TypeInv'
  BY <1>1, <1>2, InputKept DEF LayoutInv, TypeInv
<1>4. base = <<>> /\ DOMAIN base = {}
  BY <1>2 DEF LayoutInv, ReadInv
<1>5. BaseInv'
  BY <1>2, <1>4 DEF BaseInv
<1>6. ReadInv'
  <2>1. DOMAIN local' \subseteq DOMAIN local \cup {<<object, item>>}
    BY DEF ReadSection, readVars, Extended
  <2>2. \A c \in DOMAIN local : c \in Objects \X Nat
    BY DEF LayoutInv, LocalInv, Known
  <2>3. ASSUME NEW c \in DOMAIN local'
        PROVE  c[1] < object \/ (c[1] = object /\ c[2] < item + 1)
    <3>1. item \in Nat /\ object \in Nat
      BY DEF LayoutInv, TypeInv
    <3>2. CASE c = <<object, item>>
      BY <3>1, <3>2
    <3>3. CASE c \in DOMAIN local
      <4>1. c[2] \in Nat
        BY <2>2, <3>3
      <4>2. c[1] < object \/ (c[1] = object /\ c[2] < item)
        BY <1>2, <3>3 DEF LayoutInv, ReadInv
      <4> QED
        BY <3>1, <4>1, <4>2
    <3> QED
      BY <2>1, <2>3, <3>2, <3>3
  <2> QED
    BY <1>2, <1>4, <2>3 DEF ReadInv
<1>7. PlaceInv'
  BY <1>2 DEF PlaceInv
<1> QED
  BY <1>1, <1>3, <1>5, <1>6, <1>7 DEF LayoutInv

LEMMA NextObjectStep ==
  ASSUME LayoutInv, NextObject
  PROVE  LayoutInv'
<1>1. files' = files /\ separate' = separate /\ stage' = stage /\ object' = object + 1
      /\ item' = 1 /\ size' = size /\ alignment' = alignment /\ local' = local
      /\ length' = length /\ base' = base /\ boundary' = boundary /\ stage = "read"
  BY DEF NextObject, readVars, placeVars
<1>2. LocalInv'
  BY <1>1, LocalInvKept DEF LayoutInv, readVars
<1>3. BaseInv'
  BY <1>1, BaseInvKept DEF LayoutInv, TypeInv
<1>4. TypeInv'
  BY <1>1, InputKept DEF LayoutInv, TypeInv
<1>5. ReadInv'
  <2>1. ASSUME NEW c \in DOMAIN local
        PROVE  c[1] < object + 1
    <3>1. c[1] \in Nat /\ object \in Nat
      <4>1. c[1] \in Objects
        BY DEF LayoutInv, LocalInv, Known
      <4>2. object \in Nat /\ Len(files) \in Nat
        BY FilesTyped DEF LayoutInv, TypeInv
      <4> QED
        BY <4>1, <4>2 DEF Objects
    <3>2. c[1] < object \/ c[1] = object
      BY <1>1 DEF LayoutInv, ReadInv
    <3> QED
      BY <3>1, <3>2
  <2> QED
    BY <1>1, <2>1 DEF LayoutInv, ReadInv
<1>6. PlaceInv'
  BY <1>1 DEF PlaceInv
<1> QED
  BY <1>2, <1>3, <1>4, <1>5, <1>6 DEF LayoutInv

\* A step that keeps the tables and leaves the loops of the layout.
LEMMA OtherStep ==
  ASSUME LayoutInv, files' = files, separate' = separate, UNCHANGED readVars,
         UNCHANGED placeVars, object' \in Nat \ {0}, item' \in Nat \ {0},
         stage' \notin {"read", "open", "place"}
  PROVE  LayoutInv'
<1>1. size' = size /\ alignment' = alignment /\ local' = local
      /\ length' = length /\ base' = base /\ boundary' = boundary
  BY DEF readVars, placeVars
<1>2. LocalInv'
  BY LocalInvKept DEF LayoutInv
<1>3. BaseInv'
  BY <1>1, BaseInvKept DEF LayoutInv, TypeInv
<1>4. TypeInv'
  BY <1>1, InputKept DEF LayoutInv, TypeInv
<1>5. ReadInv' /\ PlaceInv'
  BY DEF ReadInv, PlaceInv
<1> QED
  BY <1>2, <1>3, <1>4, <1>5 DEF LayoutInv

LEMMA CompareStep ==
  ASSUME LayoutInv, Compare
  PROVE  LayoutInv'
<1>1. files' = files /\ separate' = separate /\ object' = object /\ item' = 1
      /\ size' = size /\ alignment' = alignment /\ local' = local
      /\ length' = length /\ base' = base /\ boundary' = boundary
  BY DEF Compare, readVars, placeVars
<1>0. stage = "read" /\ stage' \in {"mixed classes", "mixed windows", "open"}
  BY DEF Compare
<1>2. LocalInv'
  BY <1>1, LocalInvKept DEF LayoutInv, readVars
<1>3. BaseInv'
  BY <1>1, BaseInvKept DEF LayoutInv, TypeInv
<1>4. TypeInv'
  BY <1>1, InputKept DEF LayoutInv, TypeInv
<1>5. DOMAIN base' = {}
  <2>1. base = <<>>
    BY <1>0 DEF LayoutInv, ReadInv
  <2> QED
    BY <1>1, <2>1
<1>6. ReadInv' /\ PlaceInv'
  BY <1>0, <1>5 DEF ReadInv, PlaceInv
<1> QED
  BY <1>2, <1>3, <1>4, <1>6 DEF LayoutInv

LEMMA StartFacts ==
  ASSUME length \in Nat, NEW s
  PROVE  Start(s) \in Nat /\ Start(s) >= length
BY AlignUpFacts, PageAssumption DEF Start

LEMMA OpenSectionStep ==
  ASSUME LayoutInv, OpenSection
  PROVE  LayoutInv'
<1>1. files' = files /\ separate' = separate /\ object' = 1 /\ item' = item
      /\ size' = size /\ alignment' = alignment /\ local' = local
      /\ length' = Start(SectionOrder[item]) /\ base' = base
      /\ boundary' = [boundary EXCEPT ![SectionOrder[item]] = <<length', length'>>]
      /\ stage = "open" /\ stage' = "place" /\ item \in DOMAIN SectionOrder
  BY DEF OpenSection, readVars
<1>2. length \in Nat /\ length' \in Nat /\ length' >= length
  BY <1>1, StartFacts DEF LayoutInv, TypeInv
<1>3. LocalInv'
  BY <1>1, LocalInvKept DEF LayoutInv, readVars
<1>4. BaseInv'
  BY <1>1, <1>2, BaseInvKept DEF LayoutInv, TypeInv
<1>5. TypeInv'
  <2>1. boundary' \in [Output -> Nat \X Nat]
    BY <1>1, <1>2 DEF LayoutInv, TypeInv
  <2>2. item \in Nat \ {0} /\ 1 \in Nat \ {0}
    BY DEF LayoutInv, TypeInv
  <2> QED
    BY <1>1, <1>2, <2>1, <2>2, InputKept DEF LayoutInv, TypeInv
<1>6. ReadInv' /\ PlaceInv'
  BY <1>1 DEF LayoutInv, ReadInv, PlaceInv
<1> QED
  BY <1>3, <1>4, <1>5, <1>6 DEF LayoutInv

LEMMA CloseSectionStep ==
  ASSUME LayoutInv, CloseSection
  PROVE  LayoutInv'
<1>1. files' = files /\ separate' = separate /\ object' = object /\ item' = item + 1
      /\ size' = size /\ alignment' = alignment /\ local' = local
      /\ length' = length /\ base' = base
      /\ boundary' = [boundary EXCEPT ![SectionOrder[item]] = <<@[1], length>>]
      /\ stage = "place" /\ stage' = "open" /\ item \in Nat
  BY DEF CloseSection, readVars, LayoutInv, TypeInv
<1>2. LocalInv'
  BY <1>1, LocalInvKept DEF LayoutInv, readVars
<1>3. BaseInv'
  BY <1>1, BaseInvKept DEF LayoutInv, TypeInv
<1>4. TypeInv'
  <2>1. item \in DOMAIN SectionOrder /\ SectionOrder[item] \in Output
    BY <1>1 DEF LayoutInv, PlaceInv, SectionOrder, Output
  <2>2. boundary' \in [Output -> Nat \X Nat]
    BY <1>1, <2>1 DEF LayoutInv, TypeInv
  <2> QED
    BY <1>1, <2>2, InputKept DEF LayoutInv, TypeInv
<1>5. PlaceInv'
  <2>1. \A m \in DOMAIN base : \E k \in DOMAIN SectionOrder :
          k < item + 1 /\ m[2] = SectionOrder[k]
    <3> TAKE m \in DOMAIN base
    <3>1. PICK k \in DOMAIN SectionOrder :
             (k < item \/ (k = item /\ m[1] < object)) /\ m[2] = SectionOrder[k]
      BY <1>1 DEF LayoutInv, PlaceInv
    <3>2. k \in Nat
      BY DEF SectionOrder
    <3>3. k < item + 1
      BY <1>1, <3>1, <3>2
    <3> QED
      BY <3>1, <3>3
  <2> QED
    BY <1>1, <2>1 DEF PlaceInv
<1>6. ReadInv'
  BY <1>1 DEF ReadInv
<1> QED
  BY <1>2, <1>3, <1>4, <1>5, <1>6 DEF LayoutInv

LEMMA PlaceSectionStep ==
  ASSUME LayoutInv, PlaceSection
  PROVE  LayoutInv'
<1> DEFINE m == <<object, SectionOrder[item]>>
           start == AlignUp(length, alignment[m])
<1>1. files' = files /\ separate' = separate /\ object' = object + 1 /\ item' = item
      /\ size' = size /\ alignment' = alignment /\ local' = local /\ boundary' = boundary
      /\ stage = "place" /\ stage' = "place" /\ object \in Objects
  BY DEF PlaceSection, readVars
<1>2. item \in DOMAIN SectionOrder /\ SectionOrder[item] \in Output /\ item \in Nat
      /\ object \in Nat
  BY <1>1 DEF LayoutInv, TypeInv, PlaceInv, SectionOrder, Output
<1>3. m \in Merged /\ size[m] \in Nat /\ alignment[m] \in Nat \ {0} /\ length \in Nat
  BY <1>1, <1>2, AlignmentAssumption DEF LayoutInv, TypeInv, Merged
<1>4. start \in Nat /\ start >= length /\ Multiple(start, alignment[m])
  BY <1>3, AlignUpFacts
<1>5. \/ base' = base /\ length' = length
      \/ base' = Extended(base, m, start) /\ length' = start + size[m]
  BY DEF PlaceSection
<1>6. m \notin DOMAIN base
  <2> SUFFICES ASSUME m \in DOMAIN base PROVE FALSE
    OBVIOUS
  <2>1. PICK k \in DOMAIN SectionOrder :
           (k < item \/ (k = item /\ m[1] < object)) /\ m[2] = SectionOrder[k]
    BY <1>1 DEF LayoutInv, PlaceInv
  <2>2. k = item
    BY <1>2, <2>1 DEF SectionOrder
  <2> QED
    BY <1>2, <2>1, <2>2
<1> HIDE DEF m, start
<1>7. LocalInv'
  BY <1>1, LocalInvKept DEF LayoutInv, readVars
<1>8. length' \in Nat /\ length' >= length
  BY <1>3, <1>4, <1>5
<1>9. TypeInv'
  BY <1>1, <1>2, <1>8, InputKept DEF LayoutInv, TypeInv
<1>10. BaseInv'
  <2>1. CASE base' = base /\ length' = length
    BY <1>1, <1>8, <2>1, BaseInvKept DEF LayoutInv, TypeInv
  <2>2. CASE base' = Extended(base, m, start) /\ length' = start + size[m]
    <3>1. /\ DOMAIN base' = DOMAIN base \cup {m} /\ base'[m] = start
          /\ \A n \in DOMAIN base : base'[n] = base[n]
      BY <1>6, <2>2 DEF Extended
    <3>2. ASSUME NEW n \in DOMAIN base
          PROVE  /\ n \in Merged /\ base[n] \in Nat /\ size[n] \in Nat
                 /\ Before(base[n], size[n], start) /\ Before(base[n], size[n], length')
                 /\ Multiple(base[n], alignment[n])
      <4>1. /\ n \in Merged /\ base[n] \in Nat /\ Before(base[n], size[n], length)
            /\ Multiple(base[n], alignment[n])
        BY DEF LayoutInv, BaseInv
      <4>2. size[n] \in Nat
        BY <4>1 DEF LayoutInv, TypeInv
      <4> QED
        BY <1>3, <1>4, <1>8, <4>1, <4>2 DEF Before
    <3>3. Before(start, size[m], length')
      BY <1>3, <1>4, <2>2 DEF Before
    <3>4. \A n \in DOMAIN base' :
            /\ n \in Merged /\ base'[n] \in Nat /\ Before(base'[n], size[n], length')
            /\ Multiple(base'[n], alignment[n])
      BY <1>3, <1>4, <3>1, <3>2, <3>3
    <3>5. ASSUME NEW n \in DOMAIN base', NEW o \in DOMAIN base', n # o
          PROVE  Apart(base'[n], size[n], base'[o], size[o])
      <4>1. CASE n = m
        BY <3>1, <3>2, <3>5, <4>1 DEF Apart
      <4>2. CASE o = m
        BY <3>1, <3>2, <3>5, <4>2 DEF Apart
      <4>3. CASE n # m /\ o # m
        BY <3>1, <3>5, <4>3 DEF LayoutInv, BaseInv
      <4> QED
        BY <4>1, <4>2, <4>3
    <3> QED
      BY <1>1, <3>4, <3>5, InputKept DEF BaseInv
  <2> QED
    BY <1>5, <2>1, <2>2
<1>11. PlaceInv'
  <2>1. ASSUME NEW n \in DOMAIN base'
        PROVE  \E k \in DOMAIN SectionOrder :
                 (k < item \/ (k = item /\ n[1] < object + 1)) /\ n[2] = SectionOrder[k]
    <3>1. CASE n \in DOMAIN base
      <4>1. PICK k \in DOMAIN SectionOrder :
               (k < item \/ (k = item /\ n[1] < object)) /\ n[2] = SectionOrder[k]
        BY <1>1, <3>1 DEF LayoutInv, PlaceInv
      <4>2. n[1] \in Nat
        <5>1. n[1] \in Objects /\ Len(files) \in Nat
          BY <3>1, FilesTyped DEF LayoutInv, TypeInv, BaseInv, Merged
        <5> QED
          BY <5>1 DEF Objects
      <4>3. k < item \/ (k = item /\ n[1] < object + 1)
        BY <1>2, <4>1, <4>2
      <4> QED
        BY <4>1, <4>3
    <3>2. CASE n = m
      BY <1>2, <3>2 DEF m
    <3> QED
      BY <1>5, <2>1, <3>1, <3>2 DEF Extended
  <2> QED
    BY <1>1, <1>2, <2>1 DEF PlaceInv
<1>12. ReadInv'
  BY <1>1 DEF ReadInv
<1> QED
  BY <1>7, <1>9, <1>10, <1>11, <1>12 DEF LayoutInv

-----------------------------------------------------------------------------
LEMMA LayoutStep ==
  ASSUME LayoutInv, LayoutNext
  PROVE  LayoutInv'
BY ReadSectionStep, NextObjectStep, CompareStep, OpenSectionStep, PlaceSectionStep,
   CloseSectionStep DEF LayoutNext

LEMMA GotoStep ==
  ASSUME LayoutInv, NEW where, where \notin {"read", "open", "place"},
         NEW o \in Nat \ {0}, NEW k \in Nat \ {0}, Goto(where, o, k)
  PROVE  LayoutInv'
BY OtherStep DEF Goto

LEMMA RaiseStep ==
  ASSUME LayoutInv, NEW what, what \notin {"read", "open", "place"}, Raise(what)
  PROVE  LayoutInv'
<1>1. object \in Nat \ {0} /\ item \in Nat \ {0}
  BY DEF LayoutInv, TypeInv
<1> QED
  BY <1>1, OtherStep DEF Raise

LEMMA LinkStep ==
  ASSUME LayoutInv, [LinkNext]_linkVars
  PROVE  LayoutInv'
<1>0. /\ object \in Nat \ {0} /\ item \in Nat \ {0} /\ object + 1 \in Nat \ {0}
      /\ item + 1 \in Nat \ {0} /\ 1 \in Nat \ {0}
  BY DEF LayoutInv, TypeInv
<1>1. CASE Layout
  BY <1>1, LayoutStep DEF Layout
<1>2. CASE BeginSymbols
  BY <1>0, <1>2, GotoStep DEF BeginSymbols
<1>3. CASE Define
  <2> DEFINE error == DefineError(object, Symbols(object)[item])
  <2>1. stage = "define"
    BY <1>3 DEF Define
  <2>2. CASE Goto(stage, object, item + 1)
    BY <1>0, <2>1, <2>2, GotoStep
  <2>3. CASE error # "none" /\ Raise(error)
    <3>1. error \in {"empty section", "duplicate symbol"}
      BY <2>3 DEF DefineError
    <3> HIDE DEF error
    <3> QED
      BY <2>3, <3>1, RaiseStep
  <2> QED
    BY <1>3, <2>2, <2>3 DEF Define
<1>4. CASE NextSymbols
  BY <1>0, <1>4, GotoStep DEF NextSymbols
<1>5. CASE BeginRelocs
  BY <1>0, <1>5, GotoStep DEF BeginRelocs
<1>6. CASE Relocate
  <2> DEFINE reloc == Relocs(object)[item]
             error == RelocationError(object, reloc, Symbols(object)[reloc.symbol])
  <2>1. stage = "relocate"
    BY <1>6 DEF Relocate
  <2>2. CASE Goto(stage, object, item + 1)
    BY <1>0, <2>1, <2>2, GotoStep
  <2>3. CASE error # "none" /\ Raise(error)
    <3>1. error \in {"undefined symbol", "empty section", "unsupported relocation",
                    "non-TLS symbol", "overflow"}
      BY <2>3 DEF RelocationError
    <3> HIDE DEF error
    <3> QED
      BY <2>3, <3>1, RaiseStep
  <2> QED
    BY <1>6, <2>2, <2>3 DEF Relocate
<1>7. CASE NextRelocs
  BY <1>0, <1>7, GotoStep DEF NextRelocs
<1>8. CASE WriteBinary
  BY <1>0, <1>8, GotoStep DEF WriteBinary
<1>9. CASE MakeExecutable
  BY <1>0, <1>9, GotoStep, RaiseStep DEF MakeExecutable
<1>10. CASE UNCHANGED linkVars
  <2>1. UNCHANGED layoutVars
    BY <1>10 DEF linkVars
  <2>2. files' = files /\ separate' = separate /\ stage' = stage /\ object' = object
        /\ item' = item /\ size' = size /\ alignment' = alignment /\ local' = local
        /\ length' = length /\ base' = base /\ boundary' = boundary
    BY <2>1 DEF layoutVars, readVars, placeVars
  <2>3. TypeInv' /\ LocalInv'
    BY <2>2, LocalInvKept, InputKept DEF LayoutInv, TypeInv, readVars
  <2>4. BaseInv'
    BY <2>2, BaseInvKept DEF LayoutInv, TypeInv
  <2>5. ReadInv' /\ PlaceInv'
    BY <2>2 DEF LayoutInv, ReadInv, PlaceInv
  <2> QED
    BY <2>3, <2>4, <2>5 DEF LayoutInv
<1> QED
  BY <1>1, <1>2, <1>3, <1>4, <1>5, <1>6, <1>7, <1>8, <1>9, <1>10 DEF LinkNext

\* The layout invariant holds throughout a link: sections are merged and placed
\* within the tables the linker keeps (read_object, link).
THEOREM LayoutInvCorrect == LinkSpec => []LayoutInv
<1>1. LinkInit => LayoutInv
  BY LayoutInvInit DEF LinkInit
<1>2. LayoutInv /\ [LinkNext]_linkVars => LayoutInv'
  BY LinkStep
<1> QED
  BY <1>1, <1>2, PTL DEF LinkSpec

LEMMA PlacedFacts ==
  ASSUME LayoutInv, NEW c \in Contribution, Placed(c)
  PROVE  /\ Known(c) /\ local[c] \in Nat /\ base[MergedOf(c)] \in Nat
         /\ SizeOf(c) \in Nat /\ AlignOf(c) \in Alignment
         /\ size[MergedOf(c)] \in Nat /\ alignment[MergedOf(c)] \in Alignment
         /\ Address(c) = base[MergedOf(c)] + local[c]
         /\ local[c] + SizeOf(c) <= size[MergedOf(c)]
         /\ base[MergedOf(c)] + size[MergedOf(c)] <= length
         /\ length \in Nat
<1>1. Known(c) /\ local[c] \in Nat /\ Before(local[c], SizeOf(c), size[MergedOf(c)])
  BY DEF LayoutInv, LocalInv, Contribution
<1>2. MergedOf(c) \in Merged /\ MergedOf(c) \in DOMAIN base
  BY <1>1 DEF Known, Placed
<1>3. base[MergedOf(c)] \in Nat /\ Before(base[MergedOf(c)], size[MergedOf(c)], length)
  BY <1>2 DEF LayoutInv, BaseInv
<1>4. size[MergedOf(c)] \in Nat /\ alignment[MergedOf(c)] \in Alignment /\ length \in Nat
  BY <1>2 DEF LayoutInv, TypeInv
<1>5. SizeOf(c) \in Nat /\ AlignOf(c) \in Alignment
  BY <1>1, KnownTyped DEF LayoutInv, TypeInv
<1> QED
  BY <1>1, <1>3, <1>4, <1>5 DEF Before, Address

LEMMA ApartWhenPlaced ==
  ASSUME LayoutInv
  PROVE  ContributionsDisjoint
<1> SUFFICES ASSUME NEW c \in Contribution, NEW d \in Contribution,
                    Placed(c), Placed(d)
             PROVE  /\ Address(c) + SizeOf(c) <= length
                    /\ c # d => \/ Address(c) + SizeOf(c) <= Address(d)
                                \/ Address(d) + SizeOf(d) <= Address(c)
  BY DEF ContributionsDisjoint
<1> DEFINE m == MergedOf(c)
           n == MergedOf(d)
<1>1. /\ local[c] \in Nat /\ base[m] \in Nat /\ SizeOf(c) \in Nat /\ size[m] \in Nat
      /\ Address(c) = base[m] + local[c] /\ local[c] + SizeOf(c) <= size[m]
      /\ base[m] + size[m] <= length /\ length \in Nat
  BY PlacedFacts
<1>2. /\ local[d] \in Nat /\ base[n] \in Nat /\ SizeOf(d) \in Nat /\ size[n] \in Nat
      /\ Address(d) = base[n] + local[d] /\ local[d] + SizeOf(d) <= size[n]
  BY PlacedFacts
<1>3. c # d /\ m = n => Apart(local[c], SizeOf(c), local[d], SizeOf(d))
  BY DEF LayoutInv, LocalInv, Contribution
<1>4. m # n => Apart(base[m], size[m], base[n], size[n])
  BY DEF LayoutInv, BaseInv, Placed
<1> HIDE DEF m, n
<1>5. CASE m = n
  BY <1>1, <1>2, <1>3, <1>5 DEF Apart, Before
<1>6. CASE m # n
  BY <1>1, <1>2, <1>4, <1>6 DEF Apart, Before
<1> QED
  BY <1>5, <1>6

\* No two input sections of a link ever share a cell of the image, whatever the
\* objects, their alignments and the page size (read_object, link).
THEOREM LayoutDisjoint == LinkSpec => []ContributionsDisjoint
<1>1. LayoutInv => ContributionsDisjoint
  BY ApartWhenPlaced
<1> QED
  BY <1>1, LayoutInvCorrect, PTL

\* Every input section lies at a multiple of its own alignment (read_object aligns
\* it in its merged section, link aligns that by the largest of its sections).
THEOREM LayoutAligned == LinkSpec => []ContributionsAligned
<1>1. LayoutInv => ContributionsAligned
  <2> SUFFICES ASSUME LayoutInv, NEW c \in Contribution, Placed(c)
               PROVE  \E k \in 0..Address(c) : Address(c) = k * AlignOf(c)
    BY DEF ContributionsAligned
  <2> DEFINE m == MergedOf(c)
  <2>1. /\ local[c] \in Nat /\ base[m] \in Nat /\ AlignOf(c) \in Alignment
        /\ alignment[m] \in Alignment /\ Address(c) = base[m] + local[c]
    BY PlacedFacts
  <2>2. AlignOf(c) <= alignment[m] /\ Multiple(local[c], AlignOf(c))
    BY DEF LayoutInv, LocalInv, Contribution
  <2>3. Multiple(base[m], alignment[m])
    BY DEF LayoutInv, BaseInv, Placed
  <2> HIDE DEF m
  <2>4. AlignOf(c) \in Nat \ {0}
    BY <2>1, AlignmentAssumption
  <2>5. PICK q \in Nat : alignment[m] = q * AlignOf(c)
    BY <2>1, <2>2, AlignmentFacts
  <2>6. Multiple(base[m], q * AlignOf(c))
    BY <2>3, <2>5
  <2> QED
    BY <2>1, <2>2, <2>4, <2>6, MultipleOfMultiple
<1> QED
  BY <1>1, LayoutInvCorrect, PTL

-----------------------------------------------------------------------------
\* The output sections the loop of link has done, and those it has begun.
Unplaced == {"read", "mixed classes", "mixed windows"}
Looping == {"open", "place"}
Closed ==
  IF stage \in Unplaced THEN 0 ELSE IF stage \in Looping THEN item - 1 ELSE 6
Begun == IF stage = "place" THEN item ELSE Closed

\* Where output section k begins, and where it ends so far.
First(k) == boundary[SectionOrder[k]][1]
End(k) == IF stage = "place" /\ k = item THEN length ELSE boundary[SectionOrder[k]][2]

\* All sections that are kept have been merged.
MergedInv ==
  \A o \in Objects : \A i \in DOMAIN Sections(o) :
    /\ Sections(o)[i].output # Dropped
    /\ stage = "read" => o < object \/ (o = object /\ i < item)
    => <<o, i>> \in DOMAIN local

\* All merged sections with contents have been placed, up to where the loops are,
\* each within its output section.
Passed(m) ==
  \E k \in 1..6 : m[2] = SectionOrder[k] /\ (k <= Closed \/ (k <= Begun /\ m[1] < object))
WithinInv ==
  /\ \A m \in Merged : size[m] > 0 /\ Passed(m) => m \in DOMAIN base
  /\ \A m \in DOMAIN base : \A k \in 1..6 :
       m[2] = SectionOrder[k] =>
         k <= Begun /\ First(k) <= base[m] /\ base[m] + size[m] <= End(k)

\* The output sections follow each other, those that need it begin on a page, and
\* only those with contents take room.
OrderInv ==
  /\ Begun \in 0..6
  /\ \A k \in 1..6 : k <= Begun =>
       /\ First(k) <= End(k) /\ End(k) <= length
       /\ End(k) > First(k) => Present(SectionOrder[k])
       /\ PageAligned(SectionOrder[k]) => Multiple(First(k), Page)
  /\ \A j, k \in 1..6 : j < k /\ k <= Begun => End(j) <= First(k)

PlacedInv == MergedInv /\ WithinInv /\ OrderInv

-----------------------------------------------------------------------------
\* The symbols and relocations the loops have done.
Done(what, o, k) ==
  \/ stage = what /\ (o < object \/ (o = object /\ k < item))
  \/ what = "define" /\ stage = "relocate"
  \/ stage = "written"

SymbolOf(d) == Symbols(d[1])[d[2]]
PlaceOf(d) == SymbolAddress(d[1], SymbolOf(d))
Exports ==
  {d \in UNION {{o} \X DOMAIN Symbols(o) : o \in Objects} : Exported(d[1], SymbolOf(d))}

\* A definition is the place of the only exported symbol of its name so far.
SymbolInv ==
  /\ stage \in Unplaced \cup Looping => definitions = <<>>
  /\ \A name \in DOMAIN definitions : definitions[name] \in Nat
  /\ stage \in {"define", "relocate", "written"} =>
       /\ \A name \in DOMAIN definitions :
            \E d \in Exports : Done("define", d[1], d[2]) /\ SymbolOf(d).name = name
       /\ \A d \in Exports : Done("define", d[1], d[2]) =>
            /\ SymbolOf(d).name \in DOMAIN definitions
            /\ definitions[SymbolOf(d).name] = PlaceOf(d)
            /\ Placed(<<d[1], SymbolOf(d).section>>)
       /\ \A d, e \in Exports :
            /\ Done("define", d[1], d[2]) /\ Done("define", e[1], e[2])
            /\ SymbolOf(d).name = SymbolOf(e).name
            => d = e

\* Where the linker gives up about a name, there is a reason.
NoNameInv ==
  /\ stage = "duplicate symbol" =>
       \E o \in Objects : \E k \in DOMAIN Symbols(o) :
         /\ <<o, k>> \in Definers(Symbols(o)[k].name)
         /\ \E d \in Definers(Symbols(o)[k].name) : d # <<o, k>>
  /\ stage = "undefined symbol" =>
       \E o \in Objects : \E k \in DOMAIN Symbols(o) :
         ~Located(o, Symbols(o)[k]) /\ Definers(Symbols(o)[k].name) = {}

\* The relocations done were in order, and their fields hold their values.
RelocSymbol(o, r) == Symbols(o)[Relocs(o)[r].symbol]
FieldInv ==
  /\ stage \in Unplaced \cup Looping \cup {"define"} => field = <<>>
  /\ \A place \in DOMAIN field :
       place \in Nat /\ place < length /\ field[place] \in Int
  /\ stage \in {"relocate", "written"} =>
       \A o \in Objects : \A r \in DOMAIN Relocs(o) :
         Done("relocate", o, r) =>
           LET reloc == Relocs(o)[r]
           IN  /\ Place(o, reloc) \in DOMAIN field
               /\ field[Place(o, reloc)] = Value(o, reloc, RelocSymbol(o, r))
               /\ RelocationError(o, reloc, RelocSymbol(o, r)) = "none"

\* The headers are written last.
FileEnd ==
  IF Writable # {} /\ WritableMemEnd > WritableFileEnd THEN WritableFileEnd ELSE length
OutputInv ==
  /\ stage # "written" => segments = {} /\ tls = {} /\ fileEnd = 0
  /\ stage = "written" /\ separate =>
       segments = Groups /\ tls = TlsGroups /\ fileEnd = FileEnd
  /\ stage = "written" /\ ~separate => segments = {} /\ tls = {} /\ fileEnd = length

ImageInv ==
  LayoutInv /\ PlacedInv /\ SymbolInv /\ NoNameInv /\ FieldInv /\ OutputInv

-----------------------------------------------------------------------------
LEMMA Order ==
  /\ DOMAIN SectionOrder = 1..6
  /\ \A k \in 1..6 : SectionOrder[k] \in Output
  /\ \A j, k \in 1..6 : SectionOrder[j] = SectionOrder[k] => j = k
  /\ \A s \in Output : \E k \in 1..6 : s = SectionOrder[k]
<1>1. SectionOrder = <<".text", ".rodata", ".data", ".tdata", ".tbss", ".bss">>
  BY DEF SectionOrder
<1>2. 1 \in 1..6 /\ 2 \in 1..6 /\ 3 \in 1..6 /\ 4 \in 1..6 /\ 5 \in 1..6 /\ 6 \in 1..6
  OBVIOUS
<1>3. \A k \in 1..6 : k = 1 \/ k = 2 \/ k = 3 \/ k = 4 \/ k = 5 \/ k = 6
  OBVIOUS
<1>4. \A j, k \in 1..6 : SectionOrder[j] = SectionOrder[k] => j = k
  BY <1>1, <1>3
<1>5. \A s \in Output : \E k \in 1..6 : s = SectionOrder[k]
  BY <1>1, <1>2 DEF Output
<1>6. DOMAIN SectionOrder = 1..6 /\ \A k \in 1..6 : SectionOrder[k] \in Output
  BY <1>1, <1>3 DEF Output
<1> QED
  BY <1>4, <1>5, <1>6

\* What the steps of the layout change only together with the tables.
LEMMA SectionsKept ==
  ASSUME files' = files, separate' = separate, size' = size
  PROVE  \A s : Present(s)' = Present(s) /\ PageAligned(s)' = PageAligned(s)
<1>1. Objects' = Objects
  BY DEF Objects
<1>2. \A s : Present(s)' = Present(s)
  BY <1>1 DEF Present
<1>3. \A s : FirstWritable(s)' = FirstWritable(s)
  BY <1>2 DEF FirstWritable
<1> QED
  BY <1>2, <1>3 DEF PageAligned

LEMMA PlacedKept ==
  ASSUME PlacedInv, files' = files, separate' = separate, size' = size, local' = local,
         length' = length, base' = base, boundary' = boundary, Closed' = Closed,
         stage \notin {"read", "place"}, stage' \notin {"read", "place"}
  PROVE  PlacedInv'
<1>1. Begun = Closed /\ Begun' = Closed
  BY DEF Begun
<1>2. \A k : First(k)' = First(k) /\ End(k)' = End(k)
  BY DEF First, End
<1>3. MergedInv'
  BY InputKept DEF PlacedInv, MergedInv
<1>4. \A m : Passed(m)' => Passed(m)
  BY <1>1 DEF Passed
<1>5. WithinInv'
  BY <1>1, <1>2, <1>4, InputKept DEF PlacedInv, WithinInv
<1>6. OrderInv'
  BY <1>1, <1>2, SectionsKept DEF PlacedInv, OrderInv
<1> QED
  BY <1>3, <1>5, <1>6 DEF PlacedInv

\* Before the loop over the output sections nothing is placed.
LEMMA NothingPlaced ==
  ASSUME base' = <<>>, Begun' = 0, Closed' = 0
  PROVE  WithinInv' /\ OrderInv'
<1>1. DOMAIN base' = {} /\ \A k \in 1..6 : ~(k <= 0)
  OBVIOUS
<1> QED
  BY <1>1 DEF WithinInv, OrderInv, Passed

LEMMA PlacedInvInit == LayoutInit => PlacedInv
<1> SUFFICES ASSUME LayoutInit PROVE PlacedInv
  OBVIOUS
<1>1. stage = "read" /\ object = 1 /\ item = 1 /\ base = <<>> /\ files \in Input
  BY DEF LayoutInit
<1>2. Closed = 0 /\ Begun = 0
  BY <1>1 DEF Closed, Begun, Unplaced
<1>3. MergedInv
  <2>1. \A o \in Objects : o \in Nat \ {0} /\ Sections(o) \in Seq(InputSection)
    BY <1>1, FilesTyped DEF Objects
  <2>2. \A o \in Objects : \A i \in DOMAIN Sections(o) : ~(o < 1) /\ ~(i < 1)
    BY <2>1
  <2> QED
    BY <1>1, <2>2 DEF MergedInv
<1>4. DOMAIN base = {} /\ \A k \in 1..6 : ~(k <= 0)
  BY <1>1
<1> QED
  BY <1>2, <1>3, <1>4 DEF PlacedInv, WithinInv, OrderInv, Passed

LEMMA ReadPlaced ==
  ASSUME LayoutInv, PlacedInv, ReadSection
  PROVE  PlacedInv'
<1>1. stage = "read" /\ stage' = "read" /\ files' = files /\ object' = object
      /\ item' = item + 1 /\ base' = base /\ base = <<>>
  BY DEF ReadSection, placeVars, LayoutInv, ReadInv
<1>2. Closed' = 0 /\ Begun' = 0
  BY <1>1 DEF Closed, Begun, Unplaced
<1>3. MergedInv'
  <2> SUFFICES ASSUME NEW o \in Objects, NEW i \in DOMAIN Sections(o),
                      Sections(o)[i].output # Dropped,
                      o < object \/ (o = object /\ i < item + 1)
               PROVE  <<o, i>> \in DOMAIN local'
    BY <1>1, InputKept DEF MergedInv
  <2>1. DOMAIN local \subseteq DOMAIN local'
    BY DEF ReadSection, readVars, Extended
  <2>2. CASE o < object \/ (o = object /\ i < item)
    BY <1>1, <2>1, <2>2 DEF PlacedInv, MergedInv
  <2>3. CASE o = object /\ i = item
    BY <2>3 DEF ReadSection, Extended
  <2>4. i \in Nat /\ item \in Nat
    BY FilesTyped DEF LayoutInv, TypeInv
  <2> QED
    BY <2>2, <2>3, <2>4
<1> QED
  BY <1>1, <1>2, <1>3, NothingPlaced DEF PlacedInv

LEMMA NextObjectPlaced ==
  ASSUME LayoutInv, PlacedInv, NextObject
  PROVE  PlacedInv'
<1>1. stage = "read" /\ stage' = "read" /\ files' = files /\ object' = object + 1
      /\ item' = 1 /\ base' = base /\ base = <<>> /\ local' = local
  BY DEF NextObject, placeVars, readVars, LayoutInv, ReadInv
<1>2. Closed' = 0 /\ Begun' = 0
  BY <1>1 DEF Closed, Begun, Unplaced
<1>3. MergedInv'
  <2> SUFFICES ASSUME NEW o \in Objects, NEW i \in DOMAIN Sections(o),
                      Sections(o)[i].output # Dropped,
                      o < object + 1 \/ (o = object + 1 /\ i < 1)
               PROVE  <<o, i>> \in DOMAIN local
    BY <1>1, InputKept DEF MergedInv
  <2>1. i \in Nat \ {0} /\ item \in Nat /\ object \in Nat /\ o \in Nat
        /\ Sections(o) \in Seq(InputSection)
    BY FilesTyped DEF LayoutInv, TypeInv, Objects
  <2>2. o < object \/ (o = object /\ i < item)
    BY <2>1 DEF NextObject
  <2> QED
    BY <1>1, <2>2 DEF PlacedInv, MergedInv
<1> QED
  BY <1>1, <1>2, <1>3, NothingPlaced DEF PlacedInv

LEMMA ComparePlaced ==
  ASSUME LayoutInv, PlacedInv, Compare
  PROVE  PlacedInv'
<1>1. stage = "read" /\ files' = files /\ item' = 1 /\ base' = base /\ base = <<>>
      /\ local' = local /\ object \notin Objects
      /\ stage' \in {"mixed classes", "mixed windows", "open"}
  BY DEF Compare, placeVars, readVars, LayoutInv, ReadInv
<1>2. Closed' = 0 /\ Begun' = 0
  <2>1. CASE stage' = "open"
    BY <1>1, <2>1 DEF Closed, Begun, Unplaced, Looping
  <2>2. CASE stage' \in {"mixed classes", "mixed windows"}
    BY <2>2 DEF Closed, Begun, Unplaced, Looping
  <2> QED
    BY <1>1, <2>1, <2>2
<1>3. MergedInv'
  <2> SUFFICES ASSUME NEW o \in Objects, NEW i \in DOMAIN Sections(o),
                      Sections(o)[i].output # Dropped
               PROVE  <<o, i>> \in DOMAIN local
    BY <1>1, InputKept DEF MergedInv
  <2>1. o \in 1..Len(files) /\ Len(files) \in Nat /\ object \in Nat \ {0}
        /\ ~(object \in 1..Len(files))
    BY <1>1, FilesTyped DEF LayoutInv, TypeInv, Objects
  <2>2. o < object
    BY <2>1
  <2> QED
    BY <1>1, <2>2 DEF PlacedInv, MergedInv
<1> QED
  BY <1>1, <1>2, <1>3, NothingPlaced DEF PlacedInv

LEMMA OpenPlaced ==
  ASSUME LayoutInv, PlacedInv, OpenSection
  PROVE  PlacedInv'
<1> DEFINE s == SectionOrder[item]
<1>1. /\ files' = files /\ separate' = separate /\ object' = 1 /\ item' = item
      /\ size' = size /\ local' = local /\ base' = base /\ length' = Start(s)
      /\ boundary' = [boundary EXCEPT ![s] = <<length', length'>>]
      /\ stage = "open" /\ stage' = "place" /\ item \in 1..6
  BY Order DEF OpenSection, readVars
<1>2. /\ length \in Nat /\ length' \in Nat /\ length' >= length
      /\ boundary \in [Output -> Nat \X Nat] /\ item \in Nat
  BY <1>1, StartFacts DEF LayoutInv, TypeInv
<1>3. Closed = item - 1 /\ Begun = item - 1 /\ Closed' = item - 1 /\ Begun' = item
  BY <1>1 DEF Closed, Begun, Unplaced, Looping
<1>4. /\ \A k \in 1..6 : k = item => First(k)' = length' /\ End(k)' = length'
      /\ \A k \in 1..6 : k # item =>
           First(k)' = First(k) /\ End(k)' = End(k)
  BY <1>1, <1>2, Order DEF First, End
<1>5. MergedInv'
  BY <1>1, InputKept DEF PlacedInv, MergedInv
<1>6. WithinInv'
  <2>1. ASSUME NEW m \in Merged, size[m] > 0, Passed(m)' PROVE m \in DOMAIN base
    <3>1. PICK k \in 1..6 : m[2] = SectionOrder[k]
             /\ (k <= item - 1 \/ (k <= item /\ m[1] < 1))
      BY <1>1, <1>3, <2>1 DEF Passed
    <3>2. m[1] \in Objects /\ Len(files) \in Nat
      BY FilesTyped DEF Merged, LayoutInv, TypeInv
    <3>3. ~(m[1] < 1)
      BY <3>2 DEF Objects
    <3>4. Passed(m)
      BY <1>3, <3>1, <3>3 DEF Passed
    <3> QED
      BY <2>1, <3>4 DEF PlacedInv, WithinInv
  <2>2. ASSUME NEW m \in DOMAIN base, NEW k \in 1..6, m[2] = SectionOrder[k]
        PROVE  k <= Begun' /\ First(k)' <= base[m] /\ base[m] + size[m] <= End(k)'
    <3>1. k <= Begun /\ First(k) <= base[m] /\ base[m] + size[m] <= End(k)
      BY <2>2 DEF PlacedInv, WithinInv
    <3>2. k # item /\ k <= item
      BY <1>2, <1>3, <3>1
    <3> QED
      BY <1>3, <1>4, <3>1, <3>2
  <2> QED
    BY <1>1, <2>1, <2>2, InputKept DEF WithinInv
<1>7. OrderInv'
  <2>1. Begun' \in 0..6
    BY <1>1, <1>3
  <2>2. ASSUME NEW k \in 1..6, k <= item
        PROVE  /\ First(k)' <= End(k)' /\ End(k)' <= length'
               /\ End(k)' > First(k)' => Present(SectionOrder[k])'
               /\ PageAligned(SectionOrder[k])' => Multiple(First(k)', Page)
    <3>1. CASE k = item
      <4>1. First(k)' <= End(k)' /\ End(k)' <= length' /\ ~(End(k)' > First(k)')
        BY <1>2, <1>4, <3>1
      <4>2. PageAligned(s) => Multiple(length', Page)
        BY <1>1, <1>2, AlignUpFacts, PageAssumption DEF Start
      <4>3. PageAligned(s)' => PageAligned(s)
        BY <1>1, SectionsKept
      <4> QED
        BY <1>1, <1>4, <3>1, <4>1, <4>2, <4>3, SectionsKept
    <3>2. CASE k # item
      <4>1. k <= Begun
        BY <1>2, <1>3, <2>2, <3>2
      <4>2. /\ First(k) <= End(k) /\ End(k) <= length
            /\ End(k) > First(k) => Present(SectionOrder[k])
            /\ PageAligned(SectionOrder[k]) => Multiple(First(k), Page)
        BY <4>1 DEF PlacedInv, OrderInv
      <4>3. First(k)' = First(k) /\ End(k)' = End(k)
        BY <1>4, <3>2
      <4>4. End(k) \in Nat
        BY <1>2, <3>2, Order DEF End
      <4>5. End(k)' <= length'
        BY <1>2, <4>2, <4>3, <4>4
      <4> QED
        BY <1>1, <4>2, <4>3, <4>5, SectionsKept
    <3> QED
      BY <3>1, <3>2
  <2>3. ASSUME NEW j \in 1..6, NEW k \in 1..6, j < k, k <= item
        PROVE  End(j)' <= First(k)'
    <3>1. j # item /\ j <= Begun /\ End(j)' = End(j)
      BY <1>2, <1>3, <1>4, <2>3
    <3>2. CASE k = item
      <4>1. End(j) <= length /\ End(j) \in Nat
        BY <1>2, <3>1, Order DEF PlacedInv, OrderInv, End
      <4> QED
        BY <1>2, <1>4, <3>1, <3>2, <4>1
    <3>3. CASE k # item
      <4>1. k <= Begun
        BY <1>2, <1>3, <2>3, <3>3
      <4> QED
        BY <1>4, <2>3, <3>1, <3>3, <4>1 DEF PlacedInv, OrderInv
    <3> QED
      BY <3>2, <3>3
  <2> QED
    BY <1>3, <2>1, <2>2, <2>3 DEF OrderInv
<1> QED
  BY <1>5, <1>6, <1>7 DEF PlacedInv

LEMMA ClosePlaced ==
  ASSUME LayoutInv, PlacedInv, CloseSection
  PROVE  PlacedInv'
<1> DEFINE s == SectionOrder[item]
<1>1. /\ files' = files /\ separate' = separate /\ object' = object /\ item' = item + 1
      /\ size' = size /\ local' = local /\ base' = base /\ length' = length
      /\ boundary' = [boundary EXCEPT ![s] = <<@[1], length>>]
      /\ stage = "place" /\ stage' = "open" /\ item \in 1..6 /\ object \notin Objects
  BY Order DEF CloseSection, readVars, LayoutInv, PlaceInv
<1>2. length \in Nat /\ boundary \in [Output -> Nat \X Nat] /\ object \in Nat \ {0}
  BY DEF LayoutInv, TypeInv
<1>3. Closed = item - 1 /\ Begun = item /\ Closed' = item /\ Begun' = item
  BY <1>1 DEF Closed, Begun, Unplaced, Looping
<1>4. \A k \in 1..6 : First(k)' = First(k) /\ End(k)' = End(k)
  BY <1>1, <1>2, Order DEF First, End
<1>5. MergedInv'
  BY <1>1, InputKept DEF PlacedInv, MergedInv
<1>6. ASSUME NEW m \in Merged, Passed(m)' PROVE Passed(m)
  <2>1. PICK k \in 1..6 : m[2] = SectionOrder[k] /\ k <= item
    BY <1>3, <1>6 DEF Passed
  <2>2. m[1] \in 1..Len(files) /\ Len(files) \in Nat /\ ~(object \in 1..Len(files))
    BY <1>1, FilesTyped DEF Merged, LayoutInv, TypeInv, Objects
  <2>3. m[1] < object
    BY <1>2, <2>2
  <2> QED
    BY <1>3, <2>1, <2>3 DEF Passed
<1>7. WithinInv'
  BY <1>1, <1>3, <1>4, <1>6, InputKept DEF PlacedInv, WithinInv
<1>8. OrderInv'
  BY <1>1, <1>3, <1>4, SectionsKept DEF PlacedInv, OrderInv
<1> QED
  BY <1>5, <1>7, <1>8 DEF PlacedInv

LEMMA PlacePlaced ==
  ASSUME LayoutInv, PlacedInv, PlaceSection
  PROVE  PlacedInv'
<1> DEFINE s == SectionOrder[item]
           m == <<object, s>>
           start == AlignUp(length, alignment[m])
<1>1. /\ files' = files /\ separate' = separate /\ object' = object + 1 /\ item' = item
      /\ size' = size /\ local' = local /\ boundary' = boundary
      /\ stage = "place" /\ stage' = "place" /\ item \in 1..6 /\ object \in Objects
  BY Order DEF PlaceSection, readVars, LayoutInv, PlaceInv
<1>2. /\ length \in Nat /\ boundary \in [Output -> Nat \X Nat] /\ object \in Nat
      /\ s \in Output /\ m \in Merged /\ size[m] \in Nat /\ alignment[m] \in Nat \ {0}
  BY <1>1, Order, AlignmentAssumption DEF LayoutInv, TypeInv, Merged
<1>3. start \in Nat /\ start >= length
  BY <1>2, AlignUpFacts
<1>4. /\ length' \in Nat /\ length' >= length
      /\ \/ size[m] = 0 /\ base' = base /\ length' = length
         \/ size[m] # 0 /\ base' = Extended(base, m, start) /\ length' = start + size[m]
  <2>1. \/ size[m] = 0 /\ base' = base /\ length' = length
        \/ size[m] # 0 /\ base' = Extended(base, m, start) /\ length' = start + size[m]
    BY DEF PlaceSection
  <2> HIDE DEF m, start
  <2> QED
    BY <1>2, <1>3, <2>1
<1>5. Closed = item - 1 /\ Begun = item /\ Closed' = item - 1 /\ Begun' = item
  BY <1>1 DEF Closed, Begun, Unplaced, Looping
<1>6. /\ \A k \in 1..6 : First(k)' = First(k)
      /\ \A k \in 1..6 : k = item => End(k) = length /\ End(k)' = length'
      /\ \A k \in 1..6 : k # item => End(k)' = End(k)
  BY <1>1 DEF First, End
<1>7. MergedInv'
  BY <1>1, InputKept DEF PlacedInv, MergedInv
<1>8. DOMAIN base \subseteq DOMAIN base' /\ (size[m] # 0 => m \in DOMAIN base')
  BY <1>4 DEF Extended
<1>9. ASSUME NEW n \in DOMAIN base'
      PROVE  \/ n \in DOMAIN base /\ base'[n] = base[n]
             \/ n = m /\ base'[n] = start /\ length' = start + size[m] /\ size[m] # 0
  BY <1>4, <1>9 DEF Extended
<1>10. m[1] = object /\ m[2] = s
  OBVIOUS
<1> HIDE DEF m, start
<1>11. WithinInv'
  <2>1. ASSUME NEW n \in Merged, size[n] > 0, Passed(n)' PROVE n \in DOMAIN base'
    <3>1. PICK k \in 1..6 : n[2] = SectionOrder[k]
             /\ (k <= item - 1 \/ (k <= item /\ n[1] < object + 1))
      BY <1>1, <1>5, <2>1 DEF Passed
    <3>2. n[1] \in Nat /\ n = <<n[1], n[2]>>
      BY FilesTyped DEF Merged, LayoutInv, TypeInv, Objects
    <3>3. CASE k <= item - 1 \/ n[1] < object
      <4>1. Passed(n)
        BY <1>5, <3>1, <3>3 DEF Passed
      <4> QED
        BY <1>8, <2>1, <4>1 DEF PlacedInv, WithinInv
    <3>4. CASE k = item /\ n[1] = object
      <4>1. n = m
        BY <3>1, <3>2, <3>4 DEF m
      <4> QED
        BY <1>2, <1>8, <2>1, <4>1
    <3> QED
      BY <1>1, <1>2, <3>1, <3>2, <3>3, <3>4
  <2>2. ASSUME NEW n \in DOMAIN base', NEW k \in 1..6, n[2] = SectionOrder[k]
        PROVE  k <= item /\ First(k) <= base'[n] /\ base'[n] + size[n] <= End(k)'
    <3>1. CASE n \in DOMAIN base /\ base'[n] = base[n]
      <4>1. k <= item /\ First(k) <= base[n] /\ base[n] + size[n] <= End(k)
        BY <1>5, <2>2, <3>1 DEF PlacedInv, WithinInv
      <4>2. base[n] \in Nat /\ size[n] \in Nat
        BY <3>1 DEF LayoutInv, BaseInv, TypeInv
      <4>3. CASE k # item
        BY <1>6, <3>1, <4>1, <4>3
      <4>4. CASE k = item
        BY <1>2, <1>4, <1>6, <3>1, <4>1, <4>2, <4>4
      <4> QED
        BY <4>3, <4>4
    <3>2. CASE n = m /\ base'[n] = start /\ length' = start + size[m]
      <4>1. k = item
        BY <1>1, <1>10, <2>2, <3>2, Order
      <4>2. First(item) \in Nat /\ First(item) <= length
        BY <1>1, <1>2, <1>5, <1>6, Order DEF PlacedInv, OrderInv, First
      <4> QED
        BY <1>1, <1>2, <1>3, <1>6, <3>2, <4>1, <4>2
    <3> QED
      BY <1>9, <3>1, <3>2
  <2> QED
    BY <1>1, <1>5, <1>6, <2>1, <2>2, InputKept DEF WithinInv
<1>12. OrderInv'
  <2>1. ASSUME NEW k \in 1..6, k <= item
        PROVE  /\ First(k) <= End(k)' /\ End(k)' <= length'
               /\ End(k)' > First(k) => Present(SectionOrder[k])
               /\ PageAligned(SectionOrder[k]) => Multiple(First(k), Page)
    <3>1. /\ First(k) <= End(k) /\ End(k) <= length
          /\ End(k) > First(k) => Present(SectionOrder[k])
          /\ PageAligned(SectionOrder[k]) => Multiple(First(k), Page)
      BY <1>5, <2>1 DEF PlacedInv, OrderInv
    <3>2. First(k) \in Nat /\ End(k) \in Nat
      BY <1>2, Order DEF First, End
    <3>3. CASE k # item
      BY <1>2, <1>4, <1>6, <3>1, <3>2, <3>3
    <3>4. CASE k = item
      <4>1. First(k) <= End(k)' /\ End(k)' <= length'
        BY <1>2, <1>4, <1>6, <3>1, <3>2, <3>4
      <4>2. CASE length' = length
        BY <1>6, <3>1, <3>4, <4>1, <4>2
      <4>3. CASE size[m] # 0
        <5>1. size[<<object, SectionOrder[item]>>] > 0
          BY <1>2, <4>3 DEF m
        <5>2. Present(SectionOrder[k])
          BY <1>1, <3>4, <5>1 DEF Present
        <5> QED
          BY <3>1, <4>1, <5>2
      <4> QED
        BY <1>4, <4>2, <4>3
    <3> QED
      BY <3>3, <3>4
  <2>2. ASSUME NEW j \in 1..6, NEW k \in 1..6, j < k, k <= item
        PROVE  End(j)' <= First(k)
    <3>1. j # item
      BY <1>1, <2>2
    <3> QED
      BY <1>5, <1>6, <2>2, <3>1 DEF PlacedInv, OrderInv
  <2> QED
    BY <1>1, <1>5, <1>6, <2>1, <2>2, SectionsKept DEF OrderInv
<1> QED
  BY <1>7, <1>11, <1>12 DEF PlacedInv

-----------------------------------------------------------------------------
\* The steps behind the layout leave its tables alone.
Behind(where) == where \notin Unplaced \cup Looping
Kept ==
  /\ files' = files /\ separate' = separate /\ size' = size /\ alignment' = alignment
  /\ local' = local /\ length' = length /\ base' = base /\ boundary' = boundary
  /\ Behind(stage')
  /\ Behind(stage) \/ (stage = "open" /\ item \notin DOMAIN SectionOrder)

LEMMA GotoKept ==
  ASSUME NEW where, NEW o, NEW k, Goto(where, o, k), Behind(where),
         Behind(stage) \/ (stage = "open" /\ item \notin DOMAIN SectionOrder)
  PROVE  Kept
BY DEF Goto, Kept, readVars, placeVars

LEMMA RaiseKept ==
  ASSUME NEW what, Raise(what), Behind(what), Behind(stage)
  PROVE  Kept
BY DEF Raise, Kept, readVars, placeVars

LEMMA Stages ==
  /\ Behind("define") /\ Behind("relocate") /\ Behind("written")
  /\ Behind("duplicate symbol") /\ Behind("undefined symbol") /\ Behind("empty section")
  /\ Behind("unsupported relocation") /\ Behind("non-TLS symbol") /\ Behind("overflow")
  /\ Behind("undefined entry") /\ Behind("address overflow")
BY DEF Behind, Unplaced, Looping

LEMMA DefineErrors ==
  ASSUME NEW o, NEW symbol
  PROVE  DefineError(o, symbol) \in {"none", "empty section", "duplicate symbol"}
BY DEF DefineError

LEMMA RelocationErrors ==
  ASSUME NEW o, NEW reloc, NEW symbol
  PROVE  RelocationError(o, reloc, symbol) \in
           {"none", "undefined symbol", "empty section", "unsupported relocation",
            "non-TLS symbol", "overflow"}
BY DEF RelocationError

LEMMA OtherSteps ==
  ASSUME LinkNext
  PROVE  Layout \/ Kept
<1>1. CASE BeginSymbols
  BY <1>1, GotoKept, Stages DEF BeginSymbols
<1>2. CASE Define
  <2>1. stage = "define"
    BY <1>2 DEF Define
  <2>2. CASE Goto(stage, object, item + 1)
    BY <2>1, <2>2, GotoKept, Stages
  <2>3. ASSUME NEW error, error = DefineError(object, Symbols(object)[item]),
               error # "none", Raise(error)
        PROVE  Kept
    <3>1. Behind(error)
      BY <2>3, DefineErrors, Stages
    <3> QED
      BY <2>1, <2>3, <3>1, RaiseKept, Stages
  <2> QED
    BY <1>2, <2>2, <2>3 DEF Define
<1>3. CASE NextSymbols
  BY <1>3, GotoKept, Stages DEF NextSymbols
<1>4. CASE BeginRelocs
  BY <1>4, GotoKept, Stages DEF BeginRelocs
<1>5. CASE Relocate
  <2>1. stage = "relocate"
    BY <1>5 DEF Relocate
  <2>2. CASE Goto(stage, object, item + 1)
    BY <2>1, <2>2, GotoKept, Stages
  <2>3. ASSUME NEW reloc, NEW error,
               error = RelocationError(object, reloc, Symbols(object)[reloc.symbol]),
               error # "none", Raise(error)
        PROVE  Kept
    <3>1. Behind(error)
      BY <2>3, RelocationErrors, Stages
    <3> QED
      BY <2>1, <2>3, <3>1, RaiseKept, Stages
  <2> QED
    BY <1>5, <2>2, <2>3 DEF Relocate
<1>6. CASE NextRelocs
  BY <1>6, GotoKept, Stages DEF NextRelocs
<1>7. CASE WriteBinary
  BY <1>7, GotoKept, Stages DEF WriteBinary
<1>8. CASE MakeExecutable
  BY <1>8, GotoKept, RaiseKept, Stages DEF MakeExecutable
<1> QED
  BY <1>1, <1>2, <1>3, <1>4, <1>5, <1>6, <1>7, <1>8 DEF LinkNext

LEMMA PlacedStep ==
  ASSUME LayoutInv, PlacedInv, [LinkNext]_linkVars
  PROVE  PlacedInv'
<1>1. CASE Layout
  BY <1>1, ReadPlaced, NextObjectPlaced, ComparePlaced, OpenPlaced, PlacePlaced,
     ClosePlaced DEF Layout, LayoutNext
<1>2. CASE Kept
  <2>1. item \in Nat /\ Begun \in 0..6
    BY DEF LayoutInv, TypeInv, PlacedInv, OrderInv
  <2>2. Closed' = 6 /\ Closed = 6
    <3>1. Closed' = 6
      BY <1>2 DEF Kept, Closed, Behind
    <3>2. CASE Behind(stage)
      BY <3>1, <3>2 DEF Closed, Behind
    <3>3. CASE stage = "open" /\ item \notin DOMAIN SectionOrder
      <4>1. Closed = item - 1 /\ Begun = item - 1
        BY <3>3 DEF Closed, Begun, Unplaced, Looping
      <4>2. item \notin 1..6
        BY <3>3, Order
      <4>3. item = 7
        BY <2>1, <4>1, <4>2
      <4> QED
        BY <3>1, <4>1, <4>3
    <3> QED
      BY <1>2, <3>1, <3>2, <3>3 DEF Kept
  <2>3. stage \notin {"read", "place"} /\ stage' \notin {"read", "place"}
    BY <1>2 DEF Kept, Behind, Unplaced, Looping
  <2> QED
    BY <1>2, <2>2, <2>3, PlacedKept DEF Kept
<1>3. CASE UNCHANGED linkVars
  <2>1. /\ files' = files /\ separate' = separate /\ stage' = stage /\ object' = object
        /\ item' = item /\ size' = size /\ alignment' = alignment /\ local' = local
        /\ length' = length /\ base' = base /\ boundary' = boundary
    BY <1>3 DEF linkVars, layoutVars, readVars, placeVars
  <2>2. /\ Closed' = Closed /\ Begun' = Begun
        /\ \A k : First(k)' = First(k) /\ End(k)' = End(k)
    BY <2>1 DEF Closed, Begun, First, End
  <2>3. \A m : Passed(m)' = Passed(m)
    BY <2>1, <2>2 DEF Passed
  <2>4. MergedInv' /\ WithinInv'
    BY <2>1, <2>2, <2>3, InputKept DEF PlacedInv, MergedInv, WithinInv
  <2>5. OrderInv'
    BY <2>1, <2>2, SectionsKept DEF PlacedInv, OrderInv
  <2> QED
    BY <2>4, <2>5 DEF PlacedInv
<1> QED
  BY <1>1, <1>2, <1>3, OtherSteps

-----------------------------------------------------------------------------
\* What the files hold.
LEMMA SymbolsTyped ==
  ASSUME files \in Input, NEW o \in Objects
  PROVE  /\ Symbols(o) \in Seq([name : STRING, global : BOOLEAN, section : Nat, value : Nat])
         /\ Relocs(o) \in Seq([section : Nat, place : Nat, symbol : Nat, kind : STRING,
                               addend : Int])
         /\ WellFormed(files[o])
<1> DEFINE symbols_ == Seq([name : STRING, global : BOOLEAN, section : Nat, value : Nat])
           relocs_ == Seq([section : Nat, place : Nat, symbol : Nat, kind : STRING,
                           addend : Int])
           object_ == [sections : Seq(InputSection), symbols : symbols_, relocs : relocs_,
                       class : 1..2, windowed : BOOLEAN, pae : BOOLEAN]
<1>0. files \in Seq(object_)
  BY InputAssumption
<1>2. \A x \in object_ : x.symbols \in symbols_ /\ x.relocs \in relocs_
  BY DEF object_
<1> HIDE DEF object_
<1>1. o \in DOMAIN files
  BY <1>0 DEF Objects
<1>3. files[o] \in object_
  BY <1>0, <1>1
<1>4. WellFormed(files[o])
  BY <1>1, ObjectAssumption
<1> QED
  BY <1>2, <1>3, <1>4 DEF Symbols, Relocs

LEMMA SymbolTyped ==
  ASSUME files \in Input, NEW o \in Objects, NEW k \in DOMAIN Symbols(o)
  PROVE  k \in Nat \ {0} /\ Symbols(o)[k].value \in Nat /\ Symbols(o)[k].section \in Nat
<1> DEFINE symbol_ == [name : STRING, global : BOOLEAN, section : Nat, value : Nat]
<1>1. Symbols(o) \in Seq(symbol_)
  BY SymbolsTyped
<1>2. \A x \in symbol_ : x.value \in Nat /\ x.section \in Nat
  BY DEF symbol_
<1> HIDE DEF symbol_
<1>3. Symbols(o)[k] \in symbol_ /\ k \in Nat \ {0}
  BY <1>1
<1> QED
  BY <1>2, <1>3

LEMMA RelocTyped ==
  ASSUME files \in Input, NEW o \in Objects, NEW r \in DOMAIN Relocs(o)
  PROVE  /\ r \in Nat \ {0} /\ Relocs(o)[r].place \in Nat /\ Relocs(o)[r].addend \in Int
         /\ Relocs(o)[r].section \in DOMAIN Sections(o)
         /\ Sections(o)[Relocs(o)[r].section].output # Dropped
         /\ Relocs(o)[r].place < Sections(o)[Relocs(o)[r].section].size
         /\ Relocs(o)[r].symbol \in DOMAIN Symbols(o)
         /\ \A q \in DOMAIN Relocs(o) :
              r # q => \/ Relocs(o)[r].section # Relocs(o)[q].section
                       \/ Relocs(o)[r].place # Relocs(o)[q].place
<1> DEFINE reloc_ == [section : Nat, place : Nat, symbol : Nat, kind : STRING, addend : Int]
<1>1. Relocs(o) \in Seq(reloc_) /\ WellFormed(files[o])
  BY SymbolsTyped
<1>2. \A x \in reloc_ : x.place \in Nat /\ x.addend \in Int
  BY DEF reloc_
<1> HIDE DEF reloc_
<1>3. Relocs(o)[r] \in reloc_ /\ r \in Nat \ {0}
  BY <1>1
<1>4. Relocs(o) = files[o].relocs /\ Symbols(o) = files[o].symbols
      /\ Sections(o) = files[o].sections
  BY DEF Relocs, Symbols, Sections
<1> QED
  BY <1>1, <1>2, <1>3, <1>4 DEF WellFormed

-----------------------------------------------------------------------------
\* Behind the layout every merged section with contents has its place.
LEMMA RelocPlace ==
  ASSUME LayoutInv, PlacedInv, Behind(stage),
         NEW o \in Objects, NEW r \in DOMAIN Relocs(o),
         NEW c, c = <<o, Relocs(o)[r].section>>
  PROVE  /\ c \in Contribution /\ Placed(c) /\ Address(c) \in Nat
         /\ Place(o, Relocs(o)[r]) \in Nat
         /\ Place(o, Relocs(o)[r]) = Address(c) + Relocs(o)[r].place
         /\ Relocs(o)[r].place < SizeOf(c) /\ SizeOf(c) \in Nat
         /\ Place(o, Relocs(o)[r]) < length
<1> DEFINE reloc == Relocs(o)[r]
           m == MergedOf(c)
<1>1. /\ reloc.place \in Nat /\ reloc.section \in DOMAIN Sections(o)
      /\ Sections(o)[reloc.section].output # Dropped
      /\ reloc.place < Sections(o)[reloc.section].size
  BY RelocTyped DEF LayoutInv, TypeInv
<1>2. stage # "read" /\ Closed = 6
  BY DEF Behind, Closed, Unplaced, Looping
<1>3. c \in DOMAIN local
  BY <1>1, <1>2 DEF PlacedInv, MergedInv
<1>4. /\ Known(c) /\ local[c] \in Nat /\ Before(local[c], SizeOf(c), size[m])
      /\ m \in Merged
  BY <1>3 DEF LayoutInv, LocalInv, Known
<1>5. SizeOf(c) = Sections(o)[reloc.section].size /\ SizeOf(c) \in Nat
  BY <1>4, KnownTyped DEF SizeOf, LayoutInv, TypeInv
<1>6. size[m] \in Nat
  BY <1>4 DEF LayoutInv, TypeInv
<1> HIDE DEF reloc, m
<1>7. size[m] > 0
  BY <1>1, <1>4, <1>5, <1>6 DEF Before
<1>8. Passed(m)
  <2>1. m[2] \in Output
    BY <1>4 DEF Merged
  <2>2. PICK k \in 1..6 : m[2] = SectionOrder[k]
    BY <2>1, Order
  <2> QED
    BY <1>2, <2>2 DEF Passed
<1>9. m \in DOMAIN base
  BY <1>4, <1>7, <1>8 DEF PlacedInv, WithinInv
<1>10. c \in Contribution /\ Placed(c)
  BY <1>3, <1>9 DEF Contribution, Placed, m
<1>11. /\ Address(c) = base[m] + local[c] /\ base[m] \in Nat
       /\ local[c] + SizeOf(c) <= size[m] /\ base[m] + size[m] <= length /\ length \in Nat
  BY <1>10, PlacedFacts DEF m
<1>12. Place(o, reloc) = Address(c) + reloc.place
  BY DEF Place, reloc
<1> QED
  BY <1>1, <1>4, <1>5, <1>6, <1>10, <1>11, <1>12 DEF reloc

LEMMA SharedCell ==
  ASSUME NEW a \in Nat, NEW b \in Nat, NEW i \in Nat, NEW j \in Nat,
         NEW m \in Nat, NEW n \in Nat, i < m, j < n, a + i = b + j
  PROVE  ~(a + m <= b) /\ ~(b + n <= a) /\ (a = b => i = j)
OBVIOUS

\* No relocation is written over another.
LEMMA PlacesApart ==
  ASSUME LayoutInv, PlacedInv, Behind(stage),
         NEW o \in Objects, NEW r \in DOMAIN Relocs(o),
         NEW p \in Objects, NEW q \in DOMAIN Relocs(p),
         Place(o, Relocs(o)[r]) = Place(p, Relocs(p)[q])
  PROVE  o = p /\ r = q
<1> DEFINE c == <<o, Relocs(o)[r].section>>
           d == <<p, Relocs(p)[q].section>>
<1>1. /\ c \in Contribution /\ Placed(c) /\ Address(c) \in Nat
      /\ Place(o, Relocs(o)[r]) = Address(c) + Relocs(o)[r].place
      /\ Relocs(o)[r].place < SizeOf(c) /\ SizeOf(c) \in Nat
  BY RelocPlace
<1>2. /\ d \in Contribution /\ Placed(d) /\ Address(d) \in Nat
      /\ Place(p, Relocs(p)[q]) = Address(d) + Relocs(p)[q].place
      /\ Relocs(p)[q].place < SizeOf(d) /\ SizeOf(d) \in Nat
  BY RelocPlace
<1>3. Relocs(o)[r].place \in Nat /\ Relocs(p)[q].place \in Nat
  BY RelocTyped DEF LayoutInv, TypeInv
<1>4. c # d => \/ Address(c) + SizeOf(c) <= Address(d)
               \/ Address(d) + SizeOf(d) <= Address(c)
  BY <1>1, <1>2, ApartWhenPlaced DEF ContributionsDisjoint
<1> HIDE DEF c, d
<1>0. Address(c) + Relocs(o)[r].place = Address(d) + Relocs(p)[q].place
  BY <1>1, <1>2
<1>5. c = d
  BY <1>0, <1>1, <1>2, <1>3, <1>4, SharedCell
<1>6. o = p /\ Relocs(o)[r].section = Relocs(o)[q].section
  BY <1>5 DEF c, d
<1>7. Relocs(o)[r].place = Relocs(p)[q].place
  BY <1>0, <1>1, <1>2, <1>3, <1>5, SharedCell
<1> QED
  BY <1>6, <1>7, RelocTyped DEF LayoutInv, TypeInv

LEMMA ImageKept ==
  ASSUME Kept
  PROVE  /\ Objects' = Objects
         /\ \A o : Symbols(o)' = Symbols(o) /\ Relocs(o)' = Relocs(o)
         /\ \A c : Placed(c)' = Placed(c) /\ Address(c)' = Address(c)
         /\ \A o, reloc : Place(o, reloc)' = Place(o, reloc)
         /\ \A o, symbol : /\ Located(o, symbol)' = Located(o, symbol)
                           /\ SymbolAddress(o, symbol)' = SymbolAddress(o, symbol)
                           /\ Exported(o, symbol)' = Exported(o, symbol)
                           /\ IsTls(o, symbol)' = IsTls(o, symbol)
         /\ LoadBase' = LoadBase /\ TlsBase' = TlsBase
<1>1. files' = files /\ separate' = separate /\ local' = local /\ base' = base
      /\ boundary' = boundary
  BY DEF Kept
<1>2. /\ Objects' = Objects
      /\ \A o : Symbols(o)' = Symbols(o) /\ Relocs(o)' = Relocs(o) /\ Sections(o)' = Sections(o)
  BY <1>1 DEF Objects, Symbols, Relocs, Sections
<1>3. \A c : Placed(c)' = Placed(c) /\ Address(c)' = Address(c)
  BY <1>1, <1>2 DEF Placed, Address, MergedOf, Contribution
<1>4. \A o, reloc : Place(o, reloc)' = Place(o, reloc)
  BY <1>3 DEF Place
<1>5. \A o, symbol : /\ Located(o, symbol)' = Located(o, symbol)
                     /\ SymbolAddress(o, symbol)' = SymbolAddress(o, symbol)
  BY <1>1, <1>3 DEF Located, SymbolAddress
<1>6. \A o, symbol : /\ Exported(o, symbol)' = Exported(o, symbol)
                     /\ IsTls(o, symbol)' = IsTls(o, symbol)
  BY <1>2, <1>5 DEF Exported, IsTls
<1> QED
  BY <1>1, <1>2, <1>3, <1>4, <1>5, <1>6 DEF LoadBase, TlsBase

LEMMA ExportsKept ==
  ASSUME Kept
  PROVE  /\ Exports' = Exports
         /\ \A d : SymbolOf(d)' = SymbolOf(d) /\ PlaceOf(d)' = PlaceOf(d)
         /\ \A name : Definers(name)' = Definers(name)
<1>1. \A d : SymbolOf(d)' = SymbolOf(d)
  BY ImageKept DEF SymbolOf
<1>2. \A d : PlaceOf(d)' = PlaceOf(d)
  BY <1>1, ImageKept DEF PlaceOf
<1>3. Exports' = Exports
  BY <1>1, ImageKept DEF Exports
<1>4. ASSUME NEW name PROVE Definers(name)' = Definers(name)
  <2>1. Objects' = Objects /\ \A o : Symbols(o)' = Symbols(o)
    BY ImageKept
  <2>2. \A o, symbol : Located(o, symbol)' = Located(o, symbol)
    BY ImageKept
  <2> QED
    BY <2>1, <2>2, Zenon DEF Definers
<1> QED
  BY <1>1, <1>2, <1>3, <1>4

LEMMA ValueKept ==
  ASSUME Kept, definitions' = definitions
  PROVE  \A o, reloc, symbol :
           /\ Value(o, reloc, symbol)' = Value(o, reloc, symbol)
           /\ RelocationError(o, reloc, symbol)' = RelocationError(o, reloc, symbol)
<1>1. \A o, symbol : /\ Resolved(o, symbol)' = Resolved(o, symbol)
                     /\ Target(o, symbol)' = Target(o, symbol)
  BY ImageKept DEF Resolved, Target
<1>2. \A o, reloc, symbol : Value(o, reloc, symbol)' = Value(o, reloc, symbol)
  BY <1>1, ImageKept DEF Value
<1>3. \A o, symbol : /\ Located(o, symbol)' = Located(o, symbol)
                     /\ IsTls(o, symbol)' = IsTls(o, symbol)
                     /\ Placed(<<o, symbol.section>>)' = Placed(<<o, symbol.section>>)
  BY ImageKept
<1>4. ASSUME NEW o, NEW reloc, NEW symbol
      PROVE  RelocationError(o, reloc, symbol)' = RelocationError(o, reloc, symbol)
  <2>1. Fits(reloc.kind, Value(o, reloc, symbol))' = Fits(reloc.kind, Value(o, reloc, symbol))
    BY <1>2 DEF Fits
  <2>2. /\ Resolved(o, symbol)' = Resolved(o, symbol)
        /\ Located(o, symbol)' = Located(o, symbol)
        /\ IsTls(o, symbol)' = IsTls(o, symbol)
        /\ Placed(<<o, symbol.section>>)' = Placed(<<o, symbol.section>>)
    BY <1>1, <1>3
  <2> QED
    BY <2>1, <2>2 DEF RelocationError
<1> QED
  BY <1>2, <1>4

\* The exported symbols are the definers of their names.
LEMMA ExportsDefine ==
  ASSUME NEW d
  PROVE  /\ d \in Exports <=> d \in Definers(SymbolOf(d).name)
         /\ \A name : d \in Definers(name) => name = SymbolOf(d).name
         /\ d \in Exports => /\ d[1] \in Objects /\ d[2] \in DOMAIN Symbols(d[1])
                             /\ d = <<d[1], d[2]>> /\ Located(d[1], SymbolOf(d))
<1>1. \A o : d \in {o} \X DOMAIN Symbols(o) <=>
             d = <<d[1], d[2]>> /\ d[1] = o /\ d[2] \in DOMAIN Symbols(d[1])
  OBVIOUS
<1>2. d \in UNION {{o} \X DOMAIN Symbols(o) : o \in Objects} <=>
        d = <<d[1], d[2]>> /\ d[1] \in Objects /\ d[2] \in DOMAIN Symbols(d[1])
  BY <1>1
<1> DEFINE all == UNION {{o} \X DOMAIN Symbols(o) : o \in Objects}
<1>3. Exports = {e \in all : Exported(e[1], SymbolOf(e))}
  BY DEF Exports
<1>4. \A name : Definers(name) =
        {e \in all : /\ name # "" /\ SymbolOf(e).name = name /\ SymbolOf(e).global
                     /\ Located(e[1], SymbolOf(e))}
  BY DEF Definers, SymbolOf
<1> HIDE DEF all
<1>5. d \in Exports <=> d \in all /\ Exported(d[1], SymbolOf(d))
  BY <1>3
<1>6. \A name : d \in Definers(name) <=>
        /\ d \in all /\ name # "" /\ SymbolOf(d).name = name /\ SymbolOf(d).global
        /\ Located(d[1], SymbolOf(d))
  BY <1>4
<1> QED
  BY <1>2, <1>5, <1>6 DEF Exported, all

-----------------------------------------------------------------------------
Exporting == {"define", "relocate", "written"}
HasDone(d) == Done("define", d[1], d[2])

\* Steps that define nothing.
LEMMA SymbolsKept ==
  ASSUME SymbolInv, Kept, definitions' = definitions,
         stage' \in Exporting =>
           stage \in Exporting /\ \A d \in Exports : HasDone(d)' <=> HasDone(d)
  PROVE  SymbolInv'
<1>1. stage' \notin Unplaced \cup Looping
  BY DEF Kept, Behind
<1>2. CASE stage' \notin Exporting
  BY <1>1, <1>2 DEF SymbolInv, Exporting
<1>3. CASE stage' \in Exporting
  <2>1. stage \in Exporting /\ \A d \in Exports : HasDone(d)' <=> HasDone(d)
    BY <1>3
  <2>2. /\ \A name \in DOMAIN definitions : definitions[name] \in Nat
        /\ \A name \in DOMAIN definitions :
             \E d \in Exports : HasDone(d) /\ SymbolOf(d).name = name
        /\ \A d \in Exports : HasDone(d) =>
             /\ SymbolOf(d).name \in DOMAIN definitions
             /\ definitions[SymbolOf(d).name] = PlaceOf(d)
             /\ Placed(<<d[1], SymbolOf(d).section>>)
        /\ \A d, e \in Exports :
             HasDone(d) /\ HasDone(e) /\ SymbolOf(d).name = SymbolOf(e).name => d = e
    BY <2>1 DEF SymbolInv, Exporting, HasDone
  <2>3. /\ Exports' = Exports
        /\ \A d : SymbolOf(d)' = SymbolOf(d) /\ PlaceOf(d)' = PlaceOf(d)
        /\ \A c : Placed(c)' = Placed(c)
    BY ExportsKept, ImageKept
  <2>4. /\ \A name \in DOMAIN definitions' : definitions'[name] \in Nat
        /\ \A name \in DOMAIN definitions' :
             \E d \in Exports' : HasDone(d)' /\ SymbolOf(d)'.name = name
    BY <2>1, <2>2, <2>3
  <2>5. \A d \in Exports' : HasDone(d)' =>
           /\ SymbolOf(d)'.name \in DOMAIN definitions'
           /\ definitions'[SymbolOf(d)'.name] = PlaceOf(d)'
           /\ Placed(<<d[1], SymbolOf(d).section>>)'
    <3> TAKE d \in Exports'
    <3>1. Placed(<<d[1], SymbolOf(d).section>>)' = Placed(<<d[1], SymbolOf(d).section>>)
      BY <2>3
    <3> QED
      BY <2>1, <2>2, <2>3, <3>1
  <2>6. \A d, e \in Exports' :
          HasDone(d)' /\ HasDone(e)' /\ SymbolOf(d)'.name = SymbolOf(e)'.name => d = e
    BY <2>1, <2>2, <2>3
  <2> QED
    BY <1>1, <2>4, <2>5, <2>6 DEF SymbolInv, HasDone
<1> QED
  BY <1>2, <1>3

LEMMA ExportTyped ==
  ASSUME files \in Input, NEW d \in Exports
  PROVE  d[1] \in Nat \ {0} /\ d[2] \in Nat \ {0}
<1>1. d[1] \in Objects /\ d[2] \in DOMAIN Symbols(d[1])
  BY ExportsDefine
<1> QED
  BY <1>1, SymbolTyped, FilesTyped DEF Objects

LEMMA BeginSymbolsDefine ==
  ASSUME LayoutInv, SymbolInv, BeginSymbols
  PROVE  SymbolInv'
<1>1. definitions = <<>> /\ definitions' = definitions /\ stage' = "define"
      /\ object' = 1 /\ item' = 1 /\ Kept
  <2>1. definitions = <<>>
    BY DEF SymbolInv, BeginSymbols, Looping
  <2> QED
    BY <2>1, GotoKept, Stages DEF BeginSymbols, Goto
<1>2. Exports' = Exports
  BY <1>1, ExportsKept
<1>3. ASSUME NEW d \in Exports PROVE ~Done("define", d[1], d[2])'
  <2>1. d[1] \in Nat \ {0} /\ d[2] \in Nat \ {0}
    BY ExportTyped DEF LayoutInv, TypeInv
  <2>2. ~(d[1] < 1) /\ ~(d[2] < 1)
    BY <2>1
  <2> QED
    BY <1>1, <2>2 DEF Done
<1>4. DOMAIN definitions' = {}
  BY <1>1
<1> QED
  BY <1>1, <1>2, <1>3, <1>4 DEF SymbolInv

LEMMA DefineDefines ==
  ASSUME LayoutInv, SymbolInv, Define
  PROVE  SymbolInv'
<1> DEFINE symbol == Symbols(object)[item]
           error == DefineError(object, symbol)
           d0 == <<object, item>>
<1>1. stage = "define" /\ object \in Objects /\ item \in DOMAIN Symbols(object)
  BY DEF Define
<1>2. Kept
  BY <1>1, OtherSteps DEF LinkNext, Layout, LayoutNext, ReadSection, NextObject, Compare,
     OpenSection, PlaceSection, CloseSection
<1>3. CASE error # "none"
  <2>1. stage' = error /\ definitions' = definitions
    BY <1>3 DEF Define, Raise
  <2>2. stage' \in {"none", "empty section", "duplicate symbol"}
    BY <2>1, DefineErrors
  <2> QED
    BY <1>2, <2>1, <2>2, SymbolsKept DEF Exporting
<1>4. CASE error = "none"
  <2>1. /\ stage' = "define" /\ object' = object /\ item' = item + 1
        /\ definitions' = IF Exported(object, symbol)
                          THEN Extended(definitions, symbol.name, SymbolAddress(object, symbol))
                          ELSE definitions
    BY <1>1, <1>4 DEF Define, Goto, Raise
  <2>2. d0 \in Exports <=> Exported(object, symbol)
    <3>1. d0 \in UNION {{o} \X DOMAIN Symbols(o) : o \in Objects}
      <4>1. d0 \in {object} \X DOMAIN Symbols(object)
        BY <1>1
      <4> QED
        BY <1>1, <4>1
    <3>2. SymbolOf(d0) = symbol /\ d0[1] = object
      BY DEF SymbolOf
    <3> HIDE DEF d0, symbol
    <3> QED
      BY <3>1, <3>2 DEF Exports
  <2>3. ASSUME NEW d \in Exports
        PROVE  /\ HasDone(d)' <=> HasDone(d) \/ d = d0
               /\ ~HasDone(d0)
    <3>1. d[1] \in Nat /\ d[2] \in Nat /\ d = <<d[1], d[2]>>
      BY ExportTyped, ExportsDefine DEF LayoutInv, TypeInv
    <3>2. object \in Nat /\ item \in Nat
      BY DEF LayoutInv, TypeInv
    <3>3. HasDone(d)' <=> d[1] < object \/ (d[1] = object /\ d[2] < item + 1)
      BY <2>1 DEF HasDone, Done
    <3>4. HasDone(d) <=> d[1] < object \/ (d[1] = object /\ d[2] < item)
      BY <1>1 DEF HasDone, Done
    <3>5. ~HasDone(d0)
      BY <1>1, <3>2 DEF HasDone, Done
    <3>6. d = d0 <=> d[1] = object /\ d[2] = item
      BY <3>1
    <3> HIDE DEF d0
    <3> QED
      BY <3>1, <3>2, <3>3, <3>4, <3>5, <3>6
  <2>4. CASE ~Exported(object, symbol)
    <3>1. definitions' = definitions /\ d0 \notin Exports
      BY <2>1, <2>2, <2>4
    <3>2. \A d \in Exports : HasDone(d)' <=> HasDone(d)
      BY <2>3, <3>1
    <3> QED
      BY <1>1, <1>2, <3>1, <3>2, SymbolsKept DEF Exporting
  <2>5. CASE Exported(object, symbol)
    <3> DEFINE name0 == symbol.name
               address == SymbolAddress(object, symbol)
    <3>1. /\ d0 \in Exports /\ SymbolOf(d0).name = name0 /\ PlaceOf(d0) = address
          /\ Placed(<<d0[1], SymbolOf(d0).section>>) /\ name0 \notin DOMAIN definitions
      BY <1>4, <2>2, <2>5 DEF DefineError, SymbolOf, PlaceOf
    <3>2. address \in Nat
      <4>1. symbol.value \in Nat
        BY <1>1, SymbolTyped DEF LayoutInv, TypeInv
      <4>2. Placed(<<object, symbol.section>>)
        BY <1>4, <2>5 DEF DefineError
      <4>3. Address(<<object, symbol.section>>) \in Nat
        <5>1. <<object, symbol.section>> \in Contribution
          BY <4>2 DEF Placed
        <5> QED
          BY <4>2, <5>1, PlacedFacts
      <4> QED
        BY <4>1, <4>3 DEF SymbolAddress
    <3>3. /\ DOMAIN definitions' = DOMAIN definitions \cup {name0}
          /\ definitions'[name0] = address
          /\ \A name \in DOMAIN definitions : name # name0 /\ definitions'[name] = definitions[name]
      BY <2>1, <2>5, <3>1 DEF Extended
    <3>4. /\ \A name \in DOMAIN definitions : definitions[name] \in Nat
          /\ \A name \in DOMAIN definitions :
               \E d \in Exports : HasDone(d) /\ SymbolOf(d).name = name
          /\ \A d \in Exports : HasDone(d) =>
               /\ SymbolOf(d).name \in DOMAIN definitions
               /\ definitions[SymbolOf(d).name] = PlaceOf(d)
               /\ Placed(<<d[1], SymbolOf(d).section>>)
          /\ \A d, e \in Exports :
               HasDone(d) /\ HasDone(e) /\ SymbolOf(d).name = SymbolOf(e).name => d = e
      BY <1>1 DEF SymbolInv, HasDone
    <3>5. /\ Exports' = Exports
          /\ \A d : SymbolOf(d)' = SymbolOf(d) /\ PlaceOf(d)' = PlaceOf(d)
          /\ \A c : Placed(c)' = Placed(c)
      BY <1>2, ExportsKept, ImageKept
    <3>6. ~HasDone(d0) /\ \A d \in Exports : HasDone(d)' <=> HasDone(d) \/ d = d0
      BY <2>3, <3>1
    <3> HIDE DEF d0, name0, address, symbol
    <3>7. \A name \in DOMAIN definitions' : definitions'[name] \in Nat
      BY <3>2, <3>3, <3>4
    <3>8. \A name \in DOMAIN definitions' :
             \E d \in Exports' : HasDone(d)' /\ SymbolOf(d)'.name = name
      <4>1. PICK d \in Exports : d = d0
        BY <3>1
      <4>2. HasDone(d)' /\ SymbolOf(d)'.name = name0 /\ d \in Exports'
        BY <3>1, <3>5, <3>6, <4>1
      <4>3. \E e \in Exports' : HasDone(e)' /\ SymbolOf(e)'.name = name0
        BY <4>2
      <4> QED
        BY <3>3, <3>4, <3>5, <3>6, <4>3
    <3>9. ASSUME NEW d \in Exports, HasDone(d)'
          PROVE  /\ SymbolOf(d).name \in DOMAIN definitions'
                 /\ definitions'[SymbolOf(d).name] = PlaceOf(d)
                 /\ Placed(<<d[1], SymbolOf(d).section>>)
      <4>1. CASE d = d0
        BY <3>1, <3>3, <4>1
      <4>2. CASE HasDone(d)
        BY <3>3, <3>4, <4>2
      <4> QED
        BY <3>6, <3>9, <4>1, <4>2
    <3>10. ASSUME NEW d \in Exports, NEW e \in Exports, HasDone(d)', HasDone(e)',
                  SymbolOf(d).name = SymbolOf(e).name
           PROVE  d = e
      BY <3>1, <3>4, <3>6, <3>10
    <3>11. \A d : Placed(<<d[1], SymbolOf(d).section>>)' = Placed(<<d[1], SymbolOf(d).section>>)
      BY <3>5
    <3>12. stage' \notin Unplaced \cup Looping
      BY <1>2 DEF Kept, Behind
    <3> QED
      BY <3>5, <3>7, <3>8, <3>9, <3>10, <3>11, <3>12 DEF SymbolInv, HasDone
  <2> QED
    BY <2>4, <2>5
<1> QED
  BY <1>3, <1>4

LEMMA SymbolStep ==
  ASSUME LayoutInv, SymbolInv, LinkNext
  PROVE  SymbolInv'
<1>0. object \in Nat \ {0} /\ item \in Nat \ {0} /\ files \in Input
  BY DEF LayoutInv, TypeInv
<1>1. CASE Layout
  <2>1. stage \in {"read", "open", "place"} /\ definitions' = definitions
    BY <1>1 DEF Layout, LayoutNext, ReadSection, NextObject, Compare, OpenSection,
       PlaceSection, CloseSection
  <2>2. stage' \in Unplaced \cup Looping
    BY <1>1 DEF Layout, LayoutNext, ReadSection, NextObject, Compare, OpenSection,
       PlaceSection, CloseSection, Unplaced, Looping
  <2>3. definitions = <<>>
    BY <2>1 DEF SymbolInv, Unplaced, Looping
  <2>4. DOMAIN definitions' = {}
    BY <2>1, <2>3
  <2> QED
    BY <2>1, <2>2, <2>3, <2>4 DEF SymbolInv, Unplaced, Looping
<1>2. CASE BeginSymbols
  BY <1>2, BeginSymbolsDefine
<1>3. CASE Define
  BY <1>3, DefineDefines
<1>4. CASE NextSymbols
  <2>1. /\ stage = "define" /\ stage' = "define" /\ object' = object + 1 /\ item' = 1
        /\ definitions' = definitions /\ item \notin DOMAIN Symbols(object)
        /\ object \in Objects
    BY <1>4 DEF NextSymbols, Goto
  <2>2. Kept
    BY <1>4, <2>1, GotoKept, Stages DEF NextSymbols
  <2>3. ASSUME NEW d \in Exports PROVE HasDone(d)' <=> HasDone(d)
    <3>1. d[1] \in Nat \ {0} /\ d[2] \in Nat \ {0} /\ d[2] \in DOMAIN Symbols(d[1])
      BY <1>0, ExportTyped, ExportsDefine
    <3>2. HasDone(d)' <=> d[1] < object + 1 \/ (d[1] = object + 1 /\ d[2] < 1)
      BY <2>1 DEF HasDone, Done
    <3>3. HasDone(d) <=> d[1] < object \/ (d[1] = object /\ d[2] < item)
      BY <2>1 DEF HasDone, Done
    <3>4. d[1] = object => d[2] < item
      <4> SUFFICES ASSUME d[1] = object PROVE d[2] < item
        OBVIOUS
      <4>1. DOMAIN Symbols(object) = 1..Len(Symbols(object)) /\ Len(Symbols(object)) \in Nat
        BY <1>0, <2>1, SymbolsTyped
      <4>2. d[2] \in 1..Len(Symbols(object)) /\ ~(item \in 1..Len(Symbols(object)))
        BY <2>1, <3>1, <4>1
      <4> QED
        BY <1>0, <4>1, <4>2
    <3> QED
      BY <1>0, <3>1, <3>2, <3>3, <3>4
  <2> QED
    BY <2>1, <2>2, <2>3, SymbolsKept DEF Exporting
<1>5. CASE BeginRelocs
  <2>1. stage = "define" /\ stage' = "relocate" /\ definitions' = definitions
        /\ object \notin Objects
    BY <1>5 DEF BeginRelocs, Goto
  <2>2. Kept
    BY <1>5, <2>1, GotoKept, Stages DEF BeginRelocs
  <2>3. ASSUME NEW d \in Exports PROVE HasDone(d)' <=> HasDone(d)
    <3>1. d[1] \in 1..Len(files) /\ Len(files) \in Nat /\ ~(object \in 1..Len(files))
      BY <1>0, <2>1, ExportsDefine, FilesTyped DEF Objects
    <3>2. d[1] < object
      BY <1>0, <3>1
    <3> QED
      BY <2>1, <3>2 DEF HasDone, Done
  <2> QED
    BY <2>1, <2>2, <2>3, SymbolsKept DEF Exporting
<1>6. CASE Relocate
  <2>1. stage = "relocate" /\ definitions' = definitions
    BY <1>6 DEF Relocate, Raise
  <2>2. Kept
    BY <1>6, <2>1, OtherSteps DEF LinkNext, Layout, LayoutNext, ReadSection, NextObject,
       Compare, OpenSection, PlaceSection, CloseSection
  <2>3. stage' \in Exporting => stage' = "relocate"
    BY <1>6, <2>1, RelocationErrors DEF Relocate, Goto, Raise, Exporting
  <2> QED
    BY <2>1, <2>2, <2>3, SymbolsKept DEF Exporting, HasDone, Done
<1>7. CASE NextRelocs
  <2>1. stage = "relocate" /\ stage' = "relocate" /\ definitions' = definitions /\ Kept
    BY <1>7, GotoKept, Stages DEF NextRelocs, Goto
  <2> QED
    BY <2>1, SymbolsKept DEF Exporting, HasDone, Done
<1>8. CASE WriteBinary
  <2>1. stage = "relocate" /\ stage' = "written" /\ definitions' = definitions /\ Kept
    BY <1>8, GotoKept, Stages DEF WriteBinary, Goto
  <2> QED
    BY <2>1, SymbolsKept DEF Exporting, HasDone, Done
<1>9. CASE MakeExecutable
  <2>1. /\ stage = "relocate" /\ definitions' = definitions /\ Kept
        /\ stage' \in {"written", "undefined entry", "address overflow"}
    BY <1>9, GotoKept, RaiseKept, Stages DEF MakeExecutable, Goto, Raise
  <2> QED
    BY <2>1, SymbolsKept DEF Exporting, HasDone, Done
<1> QED
  BY <1>1, <1>2, <1>3, <1>4, <1>5, <1>6, <1>7, <1>8, <1>9 DEF LinkNext

LEMMA DefinersKept ==
  ASSUME Kept
  PROVE  /\ Objects' = Objects /\ \A o : Symbols(o)' = Symbols(o)
         /\ \A name : Definers(name)' = Definers(name)
         /\ \A o, k : Definers(Symbols(o)[k].name)' = Definers(Symbols(o)[k].name)
         /\ \A o, symbol : Located(o, symbol)' = Located(o, symbol)
<1>1. /\ Objects' = Objects /\ \A o : Symbols(o)' = Symbols(o)
      /\ \A o, symbol : Located(o, symbol)' = Located(o, symbol)
  BY ImageKept
<1>2. ASSUME NEW o, NEW k
      PROVE  Definers(Symbols(o)[k].name)' = Definers(Symbols(o)[k].name)
  BY <1>1, Zenon DEF Definers
<1> QED
  BY <1>1, <1>2, ExportsKept

LEMMA NoNameStep ==
  ASSUME LayoutInv, SymbolInv, LinkNext
  PROVE  NoNameInv'
<1>1. CASE stage' = "duplicate symbol"
  <2> DEFINE symbol == Symbols(object)[item]
             d0 == <<object, item>>
  <2>1. Define
    <3>1. ~Layout
      BY <1>1 DEF Layout, LayoutNext, ReadSection, NextObject, Compare, OpenSection,
         PlaceSection, CloseSection
    <3>2. ~Relocate
      <4>1. \A reloc, symbol_ : RelocationError(object, reloc, symbol_) # "duplicate symbol"
        BY RelocationErrors
      <4> QED
        BY <1>1, <4>1 DEF Relocate, Goto, Raise
    <3> QED
      BY <1>1, <3>1, <3>2 DEF LinkNext, BeginSymbols, NextSymbols, BeginRelocs, NextRelocs,
         WriteBinary, MakeExecutable, Goto, Raise
  <2>2. /\ stage = "define" /\ object \in Objects /\ item \in DOMAIN Symbols(object)
        /\ DefineError(object, symbol) = "duplicate symbol"
    BY <1>1, <2>1 DEF Define, Goto, Raise
  <2>3. Exported(object, symbol) /\ symbol.name \in DOMAIN definitions
    BY <2>2 DEF DefineError
  <2>4. PICK e \in Exports : Done("define", e[1], e[2]) /\ SymbolOf(e).name = symbol.name
    BY <2>2, <2>3 DEF SymbolInv
  <2>5. e # d0
    <3>1. object \in Nat /\ item \in Nat
      BY DEF LayoutInv, TypeInv
    <3> SUFFICES ASSUME e = d0 PROVE FALSE
      OBVIOUS
    <3>2. e[1] = object /\ e[2] = item
      OBVIOUS
    <3>3. ~(e[1] < object) /\ ~(e[2] < item)
      BY <3>1, <3>2
    <3> QED
      BY <2>2, <2>4, <3>3 DEF Done
  <2>6. e \in Definers(symbol.name)
    BY <2>4, ExportsDefine
  <2>7. d0 \in Definers(symbol.name)
    <3>1. d0 \in {object} \X DOMAIN Symbols(object)
      BY <2>2
    <3>2. d0 \in UNION {{o} \X DOMAIN Symbols(o) : o \in Objects}
      BY <2>2, <3>1
    <3>3. /\ symbol.name # "" /\ symbol.global /\ Located(d0[1], symbol)
          /\ Symbols(d0[1])[d0[2]] = symbol
      BY <2>3 DEF Exported
    <3> HIDE DEF d0, symbol
    <3> QED
      BY <3>2, <3>3 DEF Definers
  <2>8. Kept
    BY <2>1, <2>2, OtherSteps DEF LinkNext, Layout, LayoutNext, ReadSection, NextObject,
       Compare, OpenSection, PlaceSection, CloseSection
  <2>9. \E o \in Objects : \E k \in DOMAIN Symbols(o) :
          /\ <<o, k>> \in Definers(Symbols(o)[k].name)
          /\ \E d \in Definers(Symbols(o)[k].name) : d # <<o, k>>
    BY <2>2, <2>5, <2>6, <2>7
  <2>10. /\ Objects' = Objects /\ \A o : Symbols(o)' = Symbols(o)
         /\ \A name : Definers(name)' = Definers(name)
    BY <2>8, DefinersKept
  <2>11. \E o \in Objects' : \E k \in DOMAIN Symbols(o)' :
          /\ <<o, k>> \in Definers(Symbols(o)[k].name)'
          /\ \E d \in Definers(Symbols(o)[k].name)' : d # <<o, k>>
    <3>1. \A o, k : Definers(Symbols(o)[k].name)' = Definers(Symbols(o)[k].name)
      BY <2>8, DefinersKept
    <3> HIDE DEF symbol, d0
    <3> QED
      BY <2>9, <2>10, <3>1
  <2>12. stage' # "undefined symbol"
    BY <1>1
  <2> HIDE DEF symbol, d0
  <2> QED
    BY <2>11, <2>12 DEF NoNameInv
<1>2. CASE stage' = "undefined symbol"
  <2> DEFINE reloc == Relocs(object)[item]
             symbol == Symbols(object)[reloc.symbol]
  <2>1. Relocate
    <3>1. ~Layout
      BY <1>2 DEF Layout, LayoutNext, ReadSection, NextObject, Compare, OpenSection,
         PlaceSection, CloseSection
    <3>2. ~Define
      <4>1. \A symbol_ : DefineError(object, symbol_) # "undefined symbol"
        BY DefineErrors
      <4> QED
        BY <1>2, <4>1 DEF Define, Goto, Raise
    <3> QED
      BY <1>2, <3>1, <3>2 DEF LinkNext, BeginSymbols, NextSymbols, BeginRelocs, NextRelocs,
         WriteBinary, MakeExecutable, Goto, Raise
  <2>2. /\ stage = "relocate" /\ object \in Objects /\ item \in DOMAIN Relocs(object)
        /\ RelocationError(object, reloc, symbol) = "undefined symbol"
    BY <1>2, <2>1 DEF Relocate, Goto, Raise
  <2>3. ~Located(object, symbol) /\ symbol.name \notin DOMAIN definitions
    BY <2>2 DEF RelocationError, Resolved
  <2>4. reloc.symbol \in DOMAIN Symbols(object)
    BY <2>2, RelocTyped DEF LayoutInv, TypeInv
  <2>5. Definers(symbol.name) = {}
    <3> SUFFICES ASSUME NEW d \in Definers(symbol.name) PROVE FALSE
      OBVIOUS
    <3>1. d \in Exports /\ SymbolOf(d).name = symbol.name
      BY ExportsDefine
    <3>2. Done("define", d[1], d[2])
      BY <2>2 DEF Done
    <3> QED
      BY <2>2, <2>3, <3>1, <3>2 DEF SymbolInv
  <2>6. Kept
    BY <2>1, <2>2, OtherSteps DEF LinkNext, Layout, LayoutNext, ReadSection, NextObject,
       Compare, OpenSection, PlaceSection, CloseSection
  <2>7. \E o \in Objects : \E k \in DOMAIN Symbols(o) :
          ~Located(o, Symbols(o)[k]) /\ Definers(Symbols(o)[k].name) = {}
    BY <2>2, <2>3, <2>4, <2>5
  <2> QED
    BY <1>2, <2>6, <2>7, DefinersKept DEF NoNameInv
<1> QED
  BY <1>1, <1>2 DEF NoNameInv

-----------------------------------------------------------------------------
\* What a relocation the linker accepts is made of.
LEMMA TargetTyped ==
  ASSUME LayoutInv, SymbolInv, NEW o \in Objects, NEW r \in DOMAIN Relocs(o),
         RelocationError(o, Relocs(o)[r], RelocSymbol(o, r)) = "none"
  PROVE  /\ Relocs(o)[r].kind \in Kind
         /\ Relocs(o)[r].kind # "relative" =>
              /\ Target(o, RelocSymbol(o, r)) \in Nat
              /\ Resolved(o, RelocSymbol(o, r))
              /\ Located(o, RelocSymbol(o, r)) =>
                   Placed(<<o, RelocSymbol(o, r).section>>)
         /\ Relocs(o)[r].kind = "tls" => IsTls(o, RelocSymbol(o, r))
<1> DEFINE reloc == Relocs(o)[r]
           symbol == RelocSymbol(o, r)
<1>1. /\ reloc.kind \in Kind
      /\ reloc.kind # "relative" =>
           /\ Resolved(o, symbol)
           /\ Located(o, symbol) => Placed(<<o, symbol.section>>)
      /\ reloc.kind = "tls" => IsTls(o, symbol)
  BY DEF RelocationError
<1>2. symbol.value \in Nat
  <2>1. reloc.symbol \in DOMAIN Symbols(o)
    BY RelocTyped DEF LayoutInv, TypeInv
  <2> QED
    BY <2>1, SymbolTyped DEF LayoutInv, TypeInv, RelocSymbol
<1>3. ASSUME reloc.kind # "relative" PROVE Target(o, symbol) \in Nat
  <2>1. CASE Located(o, symbol)
    <3>1. Placed(<<o, symbol.section>>)
      BY <1>1, <1>3, <2>1
    <3>2. Address(<<o, symbol.section>>) \in Nat
      <4>1. <<o, symbol.section>> \in Contribution
        BY <3>1 DEF Placed
      <4> QED
        BY <3>1, <4>1, PlacedFacts
    <3> QED
      BY <1>2, <2>1, <3>2 DEF Target, SymbolAddress
  <2>2. CASE ~Located(o, symbol)
    BY <1>1, <1>3, <2>2 DEF Resolved, Target, SymbolInv
  <2> QED
    BY <2>1, <2>2
<1> QED
  BY <1>1, <1>3

LEMMA ValueTyped ==
  ASSUME LayoutInv, PlacedInv, Behind(stage), SymbolInv,
         NEW o \in Objects, NEW r \in DOMAIN Relocs(o),
         RelocationError(o, Relocs(o)[r], RelocSymbol(o, r)) = "none"
  PROVE  Value(o, Relocs(o)[r], RelocSymbol(o, r)) \in Int
<1> DEFINE reloc == Relocs(o)[r]
           symbol == RelocSymbol(o, r)
<1>1. reloc.addend \in Int
  BY RelocTyped DEF LayoutInv, TypeInv
<1>2. Place(o, reloc) \in Nat
  BY RelocPlace
<1>3. LoadBase \in Nat
  BY LinkAssumption DEF LoadBase
<1>4. TlsBase \in Nat
  BY DEF TlsBase, LayoutInv, TypeInv, Output
<1>5. reloc.kind \in Kind /\ (reloc.kind # "relative" => Target(o, symbol) \in Nat)
  BY TargetTyped
<1> SUFFICES Value(o, reloc, symbol) \in Int
  OBVIOUS
<1> HIDE DEF reloc, symbol
<1>6. CASE reloc.kind = "relative"
  BY <1>1, <1>3, <1>6 DEF Value
<1>7. CASE reloc.kind = "pcrel"
  BY <1>1, <1>2, <1>5, <1>7 DEF Value
<1>8. CASE reloc.kind \in {"abs32", "pointer"}
  BY <1>1, <1>3, <1>5, <1>8 DEF Value
<1>9. CASE reloc.kind = "tls"
  BY <1>1, <1>4, <1>5, <1>9 DEF Value
<1> QED
  BY <1>5, <1>6, <1>7, <1>8, <1>9 DEF Kind

Relocating == {"relocate", "written"}
IsDone(o, r) == Done("relocate", o, r)

\* Steps that relocate nothing.
LEMMA FieldsKept ==
  ASSUME LayoutInv, FieldInv, Kept, definitions' = definitions, field' = field,
         stage' = "define" => field = <<>>,
         stage' \in Relocating =>
           /\ stage \in Relocating
           /\ \A o \in Objects : \A r \in DOMAIN Relocs(o) : IsDone(o, r)' => IsDone(o, r)
  PROVE  FieldInv'
<1>1. stage' \notin Unplaced \cup Looping
  BY DEF Kept, Behind
<1>2. \A place \in DOMAIN field' : place \in Nat /\ place < length' /\ field'[place] \in Int
  BY DEF FieldInv, Kept
<1>3. ASSUME stage' \in Relocating, NEW o \in Objects', NEW r \in DOMAIN Relocs(o)',
             IsDone(o, r)'
      PROVE  /\ Place(o, Relocs(o)[r])' \in DOMAIN field'
             /\ field'[Place(o, Relocs(o)[r])'] = Value(o, Relocs(o)[r], RelocSymbol(o, r))'
             /\ RelocationError(o, Relocs(o)[r], RelocSymbol(o, r))' = "none"
  <2>1. o \in Objects /\ r \in DOMAIN Relocs(o) /\ Relocs(o)' = Relocs(o)
        /\ Symbols(o)' = Symbols(o)
    BY <1>3, ImageKept
  <2>2. /\ Place(o, Relocs(o)[r]) \in DOMAIN field
        /\ field[Place(o, Relocs(o)[r])] = Value(o, Relocs(o)[r], RelocSymbol(o, r))
        /\ RelocationError(o, Relocs(o)[r], RelocSymbol(o, r)) = "none"
    BY <1>3, <2>1 DEF FieldInv, Relocating, IsDone
  <2>3. RelocSymbol(o, r)' = RelocSymbol(o, r)
    BY <2>1 DEF RelocSymbol
  <2>4. Place(o, Relocs(o)[r])' = Place(o, Relocs(o)[r])
    BY <2>1, ImageKept
  <2>5. /\ Value(o, Relocs(o)[r], RelocSymbol(o, r))' = Value(o, Relocs(o)[r], RelocSymbol(o, r))
        /\ RelocationError(o, Relocs(o)[r], RelocSymbol(o, r))' =
             RelocationError(o, Relocs(o)[r], RelocSymbol(o, r))
    BY <2>1, <2>3, ValueKept
  <2> QED
    BY <2>2, <2>4, <2>5
<1> QED
  BY <1>1, <1>2, <1>3 DEF FieldInv, Relocating, IsDone

LEMMA RelocateFields ==
  ASSUME LayoutInv, PlacedInv, SymbolInv, FieldInv, Relocate
  PROVE  FieldInv'
<1> DEFINE reloc == Relocs(object)[item]
           symbol == RelocSymbol(object, item)
           error == RelocationError(object, reloc, symbol)
<1>1. /\ stage = "relocate" /\ object \in Objects /\ item \in DOMAIN Relocs(object)
      /\ definitions' = definitions /\ object \in Nat /\ item \in Nat
  BY DEF Relocate, Raise, LayoutInv, TypeInv
<1>2. Kept
  BY <1>1, OtherSteps DEF LinkNext, Layout, LayoutNext, ReadSection, NextObject,
     Compare, OpenSection, PlaceSection, CloseSection
<1>3. CASE error # "none"
  <2>1. stage' = error /\ field' = field
    BY <1>3 DEF Relocate, Raise, RelocSymbol
  <2>2. stage' \notin Relocating \cup {"define"}
    <3>1. error \in {"none", "undefined symbol", "empty section", "unsupported relocation",
                     "non-TLS symbol", "overflow"}
      BY RelocationErrors
    <3> HIDE DEF error
    <3> QED
      BY <2>1, <3>1 DEF Relocating
  <2> QED
    BY <1>1, <1>2, <2>1, <2>2, FieldsKept
<1>4. CASE error = "none"
  <2> DEFINE place0 == Place(object, reloc)
             value0 == Value(object, reloc, symbol)
  <2>1. /\ stage' = "relocate" /\ object' = object /\ item' = item + 1
        /\ field' = Extended(field, place0, value0)
    BY <1>1, <1>4 DEF Relocate, Goto, Raise, RelocSymbol
  <2>2. Behind(stage)
    BY <1>1, Stages
  <2>3. place0 \in Nat /\ place0 < length /\ value0 \in Int
    <3>1. place0 \in Nat /\ place0 < length
      BY <1>1, <2>2, RelocPlace
    <3>2. value0 \in Int
      BY <1>1, <1>4, <2>2, ValueTyped
    <3> QED
      BY <3>1, <3>2
  <2>4. /\ DOMAIN field' = DOMAIN field \cup {place0} /\ field'[place0] = value0
        /\ \A place \in DOMAIN field : place # place0 => field'[place] = field[place]
    <3> HIDE DEF place0, value0
    <3> QED
      BY <2>1 DEF Extended
  <2>5. length' = length
    BY <1>2 DEF Kept
  <2>6. \A place \in DOMAIN field : place \in Nat /\ place < length /\ field[place] \in Int
    BY DEF FieldInv
  <2>7. \A place \in DOMAIN field' : place \in Nat /\ place < length' /\ field'[place] \in Int
    <3> HIDE DEF place0, value0
    <3> QED
      BY <2>3, <2>4, <2>5, <2>6
  <2>8. ASSUME NEW o \in Objects', NEW r \in DOMAIN Relocs(o)', IsDone(o, r)'
        PROVE  /\ Place(o, Relocs(o)[r])' \in DOMAIN field'
               /\ field'[Place(o, Relocs(o)[r])'] = Value(o, Relocs(o)[r], RelocSymbol(o, r))'
               /\ RelocationError(o, Relocs(o)[r], RelocSymbol(o, r))' = "none"
    <3>1. o \in Objects /\ r \in DOMAIN Relocs(o) /\ Relocs(o)' = Relocs(o)
          /\ Symbols(o)' = Symbols(o)
      BY <1>2, <2>8, ImageKept
    <3>2. RelocSymbol(o, r)' = RelocSymbol(o, r)
      BY <3>1 DEF RelocSymbol
    <3>3. Place(o, Relocs(o)[r])' = Place(o, Relocs(o)[r])
      BY <1>2, <3>1, ImageKept
    <3>4. /\ Value(o, Relocs(o)[r], RelocSymbol(o, r))' =
               Value(o, Relocs(o)[r], RelocSymbol(o, r))
          /\ RelocationError(o, Relocs(o)[r], RelocSymbol(o, r))' =
               RelocationError(o, Relocs(o)[r], RelocSymbol(o, r))
      BY <1>1, <1>2, <3>1, <3>2, ValueKept
    <3>5. CASE o = object /\ r = item
      BY <1>4, <2>4, <3>3, <3>4, <3>5
    <3>6. CASE ~(o = object /\ r = item)
      <4>1. IsDone(o, r)
        <5>1. o < object \/ (o = object /\ r < item + 1)
          BY <2>1, <2>8 DEF IsDone, Done
        <5>2. r \in Nat
          BY <3>1, RelocTyped DEF LayoutInv, TypeInv
        <5>3. o < object \/ (o = object /\ r < item)
          BY <1>1, <3>6, <5>1, <5>2
        <5> QED
          BY <1>1, <5>3 DEF IsDone, Done
      <4>2. /\ Place(o, Relocs(o)[r]) \in DOMAIN field
            /\ field[Place(o, Relocs(o)[r])] = Value(o, Relocs(o)[r], RelocSymbol(o, r))
            /\ RelocationError(o, Relocs(o)[r], RelocSymbol(o, r)) = "none"
        BY <1>1, <3>1, <4>1 DEF FieldInv, IsDone
      <4>3. Place(o, Relocs(o)[r]) # place0
        BY <1>1, <2>2, <3>1, <3>6, PlacesApart
      <4> HIDE DEF place0, value0
      <4> QED
        BY <2>4, <3>3, <3>4, <4>2, <4>3
    <3> QED
      BY <3>5, <3>6
  <2> QED
    BY <2>1, <2>7, <2>8 DEF FieldInv, IsDone, Unplaced, Looping
<1> QED
  BY <1>3, <1>4

LEMMA FieldStep ==
  ASSUME LayoutInv, PlacedInv, SymbolInv, FieldInv, LinkNext
  PROVE  FieldInv'
<1>0. object \in Nat \ {0} /\ item \in Nat \ {0} /\ files \in Input
  BY DEF LayoutInv, TypeInv
<1>1. CASE Layout
  <2>1. stage \in {"read", "open", "place"} /\ field' = field
    BY <1>1 DEF Layout, LayoutNext, ReadSection, NextObject, Compare, OpenSection,
       PlaceSection, CloseSection
  <2>2. stage' \in Unplaced \cup Looping
    BY <1>1 DEF Layout, LayoutNext, ReadSection, NextObject, Compare, OpenSection,
       PlaceSection, CloseSection, Unplaced, Looping
  <2>3. field = <<>>
    BY <2>1 DEF FieldInv, Unplaced, Looping
  <2>4. DOMAIN field' = {} /\ field' = <<>>
    BY <2>1, <2>3
  <2> QED
    BY <2>2, <2>4 DEF FieldInv, Unplaced, Looping
<1>2. CASE BeginSymbols
  <2>1. stage = "open" /\ stage' = "define" /\ field' = field /\ definitions' = definitions
        /\ Kept
    BY <1>2, GotoKept, Stages DEF BeginSymbols, Goto
  <2>2. field = <<>>
    BY <2>1 DEF FieldInv, Looping
  <2> QED
    BY <2>1, <2>2, FieldsKept DEF Relocating
<1>3. CASE Define
  <2>1. stage = "define" /\ field' = field
    BY <1>3 DEF Define, Raise
  <2>2. Kept
    BY <1>3, <2>1, OtherSteps DEF LinkNext, Layout, LayoutNext, ReadSection, NextObject,
       Compare, OpenSection, PlaceSection, CloseSection
  <2>3. field = <<>>
    BY <2>1 DEF FieldInv
  <2>4. stage' \notin Relocating
    BY <1>3, <2>1, DefineErrors DEF Define, Goto, Raise, Relocating
  <2>5. stage' \notin Unplaced \cup Looping
    BY <2>2 DEF Kept, Behind
  <2>6. DOMAIN field' = {} /\ field' = <<>>
    BY <2>1, <2>3
  <2> QED
    BY <2>4, <2>5, <2>6 DEF FieldInv, Relocating
<1>4. CASE NextSymbols
  <2>1. stage = "define" /\ stage' = "define" /\ field' = field /\ definitions' = definitions
        /\ Kept
    BY <1>4, GotoKept, Stages DEF NextSymbols, Goto
  <2>2. field = <<>>
    BY <2>1 DEF FieldInv
  <2> QED
    BY <2>1, <2>2, FieldsKept DEF Relocating
<1>5. CASE BeginRelocs
  <2>1. /\ stage = "define" /\ stage' = "relocate" /\ object' = 1 /\ item' = 1
        /\ field' = field /\ Kept
    BY <1>5, GotoKept, Stages DEF BeginRelocs, Goto
  <2>2. DOMAIN field' = {} /\ stage' \notin Unplaced \cup Looping \cup {"define"}
    <3>1. field = <<>>
      BY <2>1 DEF FieldInv
    <3> QED
      BY <2>1, <3>1 DEF Unplaced, Looping
  <2>3. ASSUME NEW o \in Objects', NEW r \in DOMAIN Relocs(o)'
        PROVE  ~Done("relocate", o, r)'
    <3>1. o \in Objects /\ r \in DOMAIN Relocs(o)
      BY <2>1, ImageKept
    <3>2. o \in Nat \ {0} /\ r \in Nat \ {0}
      BY <1>0, <3>1, FilesTyped, RelocTyped DEF Objects
    <3>3. ~(o < 1) /\ ~(r < 1)
      BY <3>2
    <3> QED
      BY <2>1, <3>3 DEF Done
  <2> QED
    BY <2>2, <2>3 DEF FieldInv
<1>6. CASE Relocate
  BY <1>6, RelocateFields
<1>7. CASE NextRelocs
  <2>1. /\ stage = "relocate" /\ stage' = "relocate" /\ object' = object + 1 /\ item' = 1
        /\ definitions' = definitions /\ field' = field /\ Kept
        /\ object \in Objects /\ item \notin DOMAIN Relocs(object)
    BY <1>7, GotoKept, Stages DEF NextRelocs, Goto
  <2>2. ASSUME NEW o \in Objects, NEW r \in DOMAIN Relocs(o), IsDone(o, r)' PROVE IsDone(o, r)
    <3>1. o \in Nat /\ r \in Nat \ {0}
      BY <1>0, FilesTyped, RelocTyped DEF Objects
    <3>2. o < object + 1 \/ (o = object + 1 /\ r < 1)
      BY <2>1, <2>2 DEF IsDone, Done
    <3>3. o = object => r < item
      <4> SUFFICES ASSUME o = object PROVE r < item
        OBVIOUS
      <4>1. DOMAIN Relocs(object) = 1..Len(Relocs(object)) /\ Len(Relocs(object)) \in Nat
        BY <1>0, <2>1, SymbolsTyped
      <4>2. r \in 1..Len(Relocs(object)) /\ ~(item \in 1..Len(Relocs(object)))
        BY <2>1, <4>1
      <4> QED
        BY <1>0, <4>1, <4>2
    <3>4. o < object \/ (o = object /\ r < item)
      BY <1>0, <3>1, <3>2, <3>3
    <3> QED
      BY <2>1, <3>4 DEF IsDone, Done
  <2> QED
    BY <2>1, <2>2, FieldsKept DEF Relocating
<1>8. ASSUME stage = "relocate", object \notin Objects, Kept, definitions' = definitions,
             field' = field, stage' # "define"
      PROVE  FieldInv'
  <2>1. ASSUME NEW o \in Objects, NEW r \in DOMAIN Relocs(o) PROVE IsDone(o, r)
    <3>1. o \in 1..Len(files) /\ Len(files) \in Nat /\ ~(object \in 1..Len(files))
      BY <1>0, <1>8, FilesTyped DEF Objects
    <3>2. o < object
      BY <1>0, <3>1
    <3> QED
      BY <1>8, <3>2 DEF IsDone, Done
  <2> QED
    BY <1>8, <2>1, FieldsKept DEF Relocating
<1>9. CASE WriteBinary
  BY <1>8, <1>9, GotoKept, Stages DEF WriteBinary, Goto
<1>10. CASE MakeExecutable
  BY <1>8, <1>10, GotoKept, RaiseKept, Stages DEF MakeExecutable, Goto, Raise
<1> QED
  BY <1>1, <1>2, <1>3, <1>4, <1>5, <1>6, <1>7, <1>9, <1>10 DEF LinkNext

-----------------------------------------------------------------------------
LEMMA HeadersKept ==
  ASSUME boundary' = boundary, length' = length
  PROVE  /\ Groups' = Groups /\ TlsGroups' = TlsGroups /\ FileEnd' = FileEnd
         /\ Writable' = Writable
         /\ WritableMemEnd' = WritableMemEnd /\ WritableFileEnd' = WritableFileEnd
<1>1. \A names : Used(names)' = Used(names)
  BY DEF Used
<1>2. Writable' = Writable /\ FileBacked' = FileBacked
  BY <1>1 DEF Writable, FileBacked
<1>3. /\ WritableStart' = WritableStart /\ WritableMemEnd' = WritableMemEnd
      /\ WritableFileEnd' = WritableFileEnd
  BY <1>2 DEF WritableStart, WritableMemEnd, WritableFileEnd
<1>4. Groups' = Groups
  BY <1>1, <1>2, <1>3 DEF Groups
<1>5. TlsGroups' = TlsGroups
  BY <1>1 DEF TlsGroups, TlsEnd
<1> QED
  BY <1>2, <1>3, <1>4, <1>5 DEF FileEnd

LEMMA OutputStep ==
  ASSUME OutputInv, LinkNext
  PROVE  OutputInv'
<1>1. CASE WriteBinary
  <2>1. stage = "relocate" /\ stage' = "written" /\ fileEnd' = length /\ length' = length
        /\ segments' = segments /\ tls' = tls /\ separate' = separate /\ ~separate
    BY <1>1 DEF WriteBinary, Goto, placeVars
  <2> QED
    BY <2>1 DEF OutputInv
<1>2. CASE MakeExecutable /\ stage' = "written"
  <2>1. /\ segments' = Groups /\ tls' = TlsGroups /\ fileEnd' = FileEnd
        /\ length' = length /\ boundary' = boundary /\ separate' = separate /\ separate
    BY <1>2 DEF MakeExecutable, Raise, Goto, placeVars, FileEnd
  <2> QED
    BY <1>2, <2>1, HeadersKept DEF OutputInv
<1>3. ASSUME UNCHANGED outputVars, stage # "written", stage' # "written"
      PROVE  OutputInv'
  BY <1>3 DEF OutputInv, outputVars
<1>4. CASE Layout
  <2>1. stage # "written" /\ stage' # "written"
    BY <1>4 DEF Layout, LayoutNext, ReadSection, NextObject, Compare, OpenSection,
       PlaceSection, CloseSection
  <2> QED
    BY <1>3, <1>4, <2>1 DEF Layout
<1>5. CASE MakeExecutable /\ stage' # "written"
  BY <1>3, <1>5 DEF MakeExecutable, Raise, Goto
<1>6. CASE Define
  <2>1. stage # "written" /\ stage' # "written" /\ UNCHANGED outputVars
    BY <1>6, DefineErrors DEF Define, Raise, Goto
  <2> QED
    BY <1>3, <2>1
<1>7. CASE Relocate
  <2>1. stage # "written" /\ stage' # "written" /\ UNCHANGED outputVars
    BY <1>7, RelocationErrors DEF Relocate, Raise, Goto
  <2> QED
    BY <1>3, <2>1
<1>8. CASE BeginSymbols \/ NextSymbols \/ BeginRelocs \/ NextRelocs
  <2>1. stage # "written" /\ stage' # "written" /\ UNCHANGED outputVars
    BY <1>8 DEF BeginSymbols, NextSymbols, BeginRelocs, NextRelocs, Goto
  <2> QED
    BY <1>3, <2>1
<1> QED
  BY <1>1, <1>2, <1>4, <1>5, <1>6, <1>7, <1>8 DEF LinkNext

-----------------------------------------------------------------------------
LEMMA ImageInvInit == LinkInit => ImageInv
<1> SUFFICES ASSUME LinkInit PROVE ImageInv
  OBVIOUS
<1>1. LayoutInv /\ PlacedInv
  BY LayoutInvInit, PlacedInvInit DEF LinkInit
<1>2. /\ stage = "read" /\ definitions = <<>> /\ field = <<>> /\ segments = {}
      /\ tls = {} /\ fileEnd = 0 /\ DOMAIN definitions = {} /\ DOMAIN field = {}
  BY DEF LinkInit, LayoutInit
<1> QED
  BY <1>1, <1>2 DEF ImageInv, SymbolInv, NoNameInv, FieldInv, OutputInv

LEMMA ImageStep ==
  ASSUME ImageInv, [LinkNext]_linkVars
  PROVE  ImageInv'
<1>1. LayoutInv' /\ PlacedInv'
  BY LinkStep, PlacedStep DEF ImageInv
<1>2. CASE LinkNext
  BY <1>1, <1>2, SymbolStep, NoNameStep, FieldStep, OutputStep DEF ImageInv
<1>3. CASE UNCHANGED linkVars
  <2>1. /\ files' = files /\ separate' = separate /\ stage' = stage /\ object' = object
        /\ item' = item /\ size' = size /\ alignment' = alignment /\ local' = local
        /\ length' = length /\ base' = base /\ boundary' = boundary
        /\ definitions' = definitions /\ field' = field /\ segments' = segments
        /\ tls' = tls /\ fileEnd' = fileEnd
    BY <1>3 DEF linkVars, layoutVars, readVars, placeVars, outputVars
  <2>2. OutputInv'
    BY <2>1, HeadersKept DEF ImageInv, OutputInv
  <2>3. SymbolInv' /\ NoNameInv' /\ FieldInv'
    <3>1. CASE Behind(stage)
      <4>1. Kept
        BY <2>1, <3>1 DEF Kept
      <4>2. \A what, o, k : Done(what, o, k)' <=> Done(what, o, k)
        BY <2>1 DEF Done
      <4>3. SymbolInv'
        BY <2>1, <4>1, <4>2, SymbolsKept DEF ImageInv, HasDone
      <4>4. FieldInv'
        BY <2>1, <4>1, <4>2, FieldsKept DEF ImageInv, FieldInv, IsDone
      <4>5. NoNameInv'
        BY <2>1, <4>1, DefinersKept DEF ImageInv, NoNameInv
      <4> QED
        BY <4>3, <4>4, <4>5
    <3>2. CASE ~Behind(stage)
      <4>1. stage \in Unplaced \cup Looping
        BY <3>2 DEF Behind
      <4>2. definitions = <<>> /\ field = <<>>
        BY <4>1 DEF ImageInv, SymbolInv, FieldInv
      <4>3. DOMAIN definitions' = {} /\ DOMAIN field' = {} /\ definitions' = <<>>
            /\ field' = <<>>
        BY <2>1, <4>2
      <4>4. stage' \notin {"define", "relocate", "written", "duplicate symbol",
                           "undefined symbol"}
        BY <2>1, <4>1 DEF Unplaced, Looping
      <4> QED
        BY <4>3, <4>4 DEF SymbolInv, FieldInv, NoNameInv
    <3> QED
      BY <3>1, <3>2
  <2> QED
    BY <1>1, <2>2, <2>3 DEF ImageInv
<1> QED
  BY <1>2, <1>3

\* Throughout a link the output sections lie in order and on their pages, the
\* definitions are the places of the exported symbols read so far, no two of them of
\* one name, and the fields hold the values of the relocations done so far (link,
\* make_executable).
THEOREM ImageCorrect == LinkSpec => []ImageInv
<1>1. LinkInit => ImageInv
  BY ImageInvInit
<1>2. ImageInv /\ [LinkNext]_linkVars => ImageInv'
  BY ImageStep
<1> QED
  BY <1>1, <1>2, PTL DEF LinkSpec

-----------------------------------------------------------------------------
\* The extremes of the boundaries.
LEMMA MinIs ==
  ASSUME NEW S \in SUBSET Int, NEW x \in S, \A y \in S : x <= y
  PROVE  Min(S) = x
<1>1. Min(S) \in S /\ \A y \in S : Min(S) <= y
  BY DEF Min
<1>2. Min(S) <= x /\ x <= Min(S) /\ x \in Int /\ Min(S) \in Int
  BY <1>1
<1> QED
  BY <1>2

LEMMA MaxIs ==
  ASSUME NEW S \in SUBSET Int, NEW x \in S, \A y \in S : x >= y
  PROVE  Max(S) = x
<1>1. Max(S) \in S /\ \A y \in S : Max(S) >= y
  BY DEF Max
<1>2. Max(S) >= x /\ x >= Max(S) /\ x \in Int /\ Max(S) \in Int
  BY <1>1
<1> QED
  BY <1>2

LEMMA Extremes ==
  ASSUME NEW K \in SUBSET (1..6), K # {}
  PROVE  \E j, k \in K : \A i \in K : j <= i /\ i <= k
<1>0. \A i \in K : i = 1 \/ i = 2 \/ i = 3 \/ i = 4 \/ i = 5 \/ i = 6
  OBVIOUS
<1>1. \E j \in K : \A i \in K : j <= i
  <2>1. CASE 1 \in K
    BY <1>0, <2>1
  <2>2. CASE 1 \notin K /\ 2 \in K
    BY <1>0, <2>2
  <2>3. CASE 1 \notin K /\ 2 \notin K /\ 3 \in K
    BY <1>0, <2>3
  <2>4. CASE 1 \notin K /\ 2 \notin K /\ 3 \notin K /\ 4 \in K
    BY <1>0, <2>4
  <2>5. CASE 1 \notin K /\ 2 \notin K /\ 3 \notin K /\ 4 \notin K /\ 5 \in K
    BY <1>0, <2>5
  <2>6. CASE 1 \notin K /\ 2 \notin K /\ 3 \notin K /\ 4 \notin K /\ 5 \notin K
    <3>1. 6 \in K /\ \A i \in K : i = 6
      BY <1>0, <2>6
    <3> QED
      BY <3>1
  <2> QED
    BY <2>1, <2>2, <2>3, <2>4, <2>5, <2>6
<1>2. \E k \in K : \A i \in K : i <= k
  <2>1. CASE 6 \in K
    BY <1>0, <2>1
  <2>2. CASE 6 \notin K /\ 5 \in K
    BY <1>0, <2>2
  <2>3. CASE 6 \notin K /\ 5 \notin K /\ 4 \in K
    BY <1>0, <2>3
  <2>4. CASE 6 \notin K /\ 5 \notin K /\ 4 \notin K /\ 3 \in K
    BY <1>0, <2>4
  <2>5. CASE 6 \notin K /\ 5 \notin K /\ 4 \notin K /\ 3 \notin K /\ 2 \in K
    BY <1>0, <2>5
  <2>6. CASE 6 \notin K /\ 5 \notin K /\ 4 \notin K /\ 3 \notin K /\ 2 \notin K
    <3>1. 1 \in K /\ \A i \in K : i = 1
      BY <1>0, <2>6
    <3> QED
      BY <3>1
  <2> QED
    BY <2>1, <2>2, <2>3, <2>4, <2>5, <2>6
<1> QED
  BY <1>1, <1>2

-----------------------------------------------------------------------------
\* The finished layout.
Filled(k) == First(k) < End(k)

LEMMA Boundaries ==
  ASSUME LayoutInv, PlacedInv, Behind(stage)
  PROVE  /\ \A k \in 1..6 :
              /\ First(k) \in Nat /\ End(k) \in Nat /\ First(k) <= End(k) /\ End(k) <= length
              /\ End(k) = boundary[SectionOrder[k]][2]
              /\ Filled(k) <=> Present(SectionOrder[k])
              /\ PageAligned(SectionOrder[k]) => Multiple(First(k), Page)
         /\ \A j, k \in 1..6 : j < k => End(j) <= First(k)
         /\ length \in Nat
<1>1. Closed = 6 /\ Begun = 6 /\ stage # "place"
  BY DEF Behind, Closed, Begun, Unplaced, Looping
<1>2. boundary \in [Output -> Nat \X Nat] /\ length \in Nat
  BY DEF LayoutInv, TypeInv
<1>3. ASSUME NEW k \in 1..6
      PROVE  /\ First(k) \in Nat /\ End(k) \in Nat
             /\ End(k) = boundary[SectionOrder[k]][2]
  BY <1>1, <1>2, Order DEF First, End
<1>4. ASSUME NEW k \in 1..6
      PROVE  /\ First(k) <= End(k) /\ End(k) <= length
             /\ End(k) > First(k) => Present(SectionOrder[k])
             /\ PageAligned(SectionOrder[k]) => Multiple(First(k), Page)
  BY <1>1 DEF PlacedInv, OrderInv
<1>5. ASSUME NEW j \in 1..6, NEW k \in 1..6, j < k PROVE End(j) <= First(k)
  BY <1>1, <1>5 DEF PlacedInv, OrderInv
<1>6. ASSUME NEW k \in 1..6, Present(SectionOrder[k]) PROVE Filled(k)
  <2>1. PICK o \in Objects : size[o, SectionOrder[k]] > 0
    BY <1>6 DEF Present
  <2> DEFINE m == <<o, SectionOrder[k]>>
  <2>2. m \in Merged /\ m[2] = SectionOrder[k]
    BY Order DEF Merged
  <2>3. Passed(m)
    BY <1>1, <2>2 DEF Passed
  <2>4. m \in DOMAIN base
    BY <2>1, <2>2, <2>3 DEF PlacedInv, WithinInv
  <2>5. First(k) <= base[m] /\ base[m] + size[m] <= End(k)
    BY <2>2, <2>4 DEF PlacedInv, WithinInv
  <2>6. base[m] \in Nat /\ size[m] \in Nat
    BY <2>2, <2>4 DEF LayoutInv, BaseInv, TypeInv
  <2>7. size[m] > 0
    BY <2>1
  <2> HIDE DEF m
  <2> QED
    BY <1>3, <2>5, <2>6, <2>7 DEF Filled
<1>7. \A k \in 1..6 : Filled(k) <=> Present(SectionOrder[k])
  <2> TAKE k \in 1..6
  <2>1. CASE Filled(k)
    BY <1>3, <1>4, <2>1 DEF Filled
  <2>2. CASE ~Filled(k)
    BY <1>6, <2>2
  <2> QED
    BY <2>1, <2>2
<1> QED
  BY <1>2, <1>3, <1>4, <1>5, <1>7

\* A section with contents lies in its output section, which is one of the segments.
LEMMA ContributionPlace ==
  ASSUME LayoutInv, PlacedInv, Behind(stage), NEW c \in Contribution, SizeOf(c) > 0
  PROVE  \E k \in 1..6 :
           /\ MergedOf(c)[2] = SectionOrder[k] /\ First(k) <= Address(c)
           /\ Address(c) + SizeOf(c) <= End(k)
           /\ Address(c) \in Nat /\ SizeOf(c) \in Nat /\ Filled(k)
<1> DEFINE m == MergedOf(c)
<1>1. /\ Known(c) /\ local[c] \in Nat /\ Before(local[c], SizeOf(c), size[m])
      /\ m \in Merged
  BY DEF Contribution, LayoutInv, LocalInv, Known
<1>2. SizeOf(c) \in Nat /\ size[m] \in Nat
  BY <1>1, KnownTyped DEF LayoutInv, TypeInv
<1>3. Closed = 6
  BY DEF Behind, Closed, Unplaced, Looping
<1>4. PICK k \in 1..6 : m[2] = SectionOrder[k]
  <2>1. m[2] \in Output
    BY <1>1 DEF Merged
  <2> QED
    BY <2>1, Order
<1>5. Passed(m)
  BY <1>3, <1>4 DEF Passed
<1>6. Address(c) = base[m] + local[c]
  BY DEF Address
<1> HIDE DEF m
<1>7. size[m] > 0
  BY <1>1, <1>2 DEF Before
<1>8. m \in DOMAIN base
  BY <1>1, <1>5, <1>7 DEF PlacedInv, WithinInv
<1>9. First(k) <= base[m] /\ base[m] + size[m] <= End(k)
  BY <1>4, <1>8 DEF PlacedInv, WithinInv
<1>10. base[m] \in Nat /\ First(k) \in Nat /\ End(k) \in Nat
  BY <1>8, Boundaries DEF LayoutInv, BaseInv
<1>11. /\ First(k) <= Address(c) /\ Address(c) + SizeOf(c) <= End(k)
       /\ Address(c) \in Nat /\ First(k) < End(k)
  BY <1>1, <1>2, <1>6, <1>7, <1>9, <1>10 DEF Before
<1> QED
  BY <1>2, <1>4, <1>11 DEF Filled, m

\* The output sections of the data segment by number.
LEMMA Numbers ==
  /\ SectionOrder[1] = ".text" /\ SectionOrder[2] = ".rodata" /\ SectionOrder[3] = ".data"
  /\ SectionOrder[4] = ".tdata" /\ SectionOrder[5] = ".tbss" /\ SectionOrder[6] = ".bss"
BY DEF SectionOrder

LEMMA WritableNumbers ==
  ASSUME LayoutInv, PlacedInv, Behind(stage)
  PROVE  /\ \A s \in Writable : \E k \in 3..6 : s = SectionOrder[k] /\ Filled(k)
         /\ \A k \in 3..6 : Filled(k) => SectionOrder[k] \in Writable
         /\ \A s \in FileBacked : \E k \in 3..4 : s = SectionOrder[k] /\ Filled(k)
         /\ \A k \in 3..4 : Filled(k) => SectionOrder[k] \in FileBacked
<1>1. \A k \in 1..6 : Filled(k) <=> boundary[SectionOrder[k]][2] > boundary[SectionOrder[k]][1]
  <2> TAKE k \in 1..6
  <2>1. /\ First(k) \in Nat /\ End(k) \in Nat /\ End(k) = boundary[SectionOrder[k]][2]
        /\ First(k) = boundary[SectionOrder[k]][1]
    BY Boundaries DEF First
  <2> QED
    BY <2>1 DEF Filled
<1>2. \A k \in 3..6 : k \in 1..6 /\ (k = 3 \/ k = 4 \/ k = 5 \/ k = 6)
  OBVIOUS
<1>3. \A k \in 3..4 : k \in 1..6 /\ (k = 3 \/ k = 4)
  OBVIOUS
<1>4. 3 \in 3..6 /\ 4 \in 3..6 /\ 5 \in 3..6 /\ 6 \in 3..6 /\ 3 \in 3..4 /\ 4 \in 3..4
  OBVIOUS
<1>5. ASSUME NEW s \in Writable
      PROVE  \E k \in 3..6 : s = SectionOrder[k] /\ Filled(k)
  <2>1. s \in {".data", ".tdata", ".bss", ".tbss"} /\ boundary[s][2] > boundary[s][1]
    BY DEF Writable, Used
  <2>2. \E k \in 3..6 : s = SectionOrder[k]
    BY <1>4, <2>1, Numbers
  <2> QED
    BY <1>1, <1>2, <2>1, <2>2
<1>6. ASSUME NEW k \in 3..6, Filled(k) PROVE SectionOrder[k] \in Writable
  <2>1. SectionOrder[k] \in {".data", ".tdata", ".bss", ".tbss"}
    BY <1>2, Numbers
  <2> QED
    BY <1>1, <1>2, <1>6, <2>1 DEF Writable, Used
<1>7. ASSUME NEW s \in FileBacked
      PROVE  \E k \in 3..4 : s = SectionOrder[k] /\ Filled(k)
  <2>1. s \in {".data", ".tdata"} /\ boundary[s][2] > boundary[s][1]
    BY DEF FileBacked, Used
  <2>2. \E k \in 3..4 : s = SectionOrder[k]
    BY <1>4, <2>1, Numbers
  <2> QED
    BY <1>1, <1>3, <2>1, <2>2
<1>8. ASSUME NEW k \in 3..4, Filled(k) PROVE SectionOrder[k] \in FileBacked
  <2>1. SectionOrder[k] \in {".data", ".tdata"}
    BY <1>3, Numbers
  <2> QED
    BY <1>1, <1>3, <1>8, <2>1 DEF FileBacked, Used
<1> QED
  BY <1>5, <1>6, <1>7, <1>8

LEMMA WritableFacts ==
  ASSUME LayoutInv, PlacedInv, Behind(stage), Writable # {}
  PROVE  /\ WritableStart \in Nat /\ WritableFileEnd \in Nat /\ WritableMemEnd \in Nat
         /\ WritableStart <= WritableFileEnd /\ WritableFileEnd <= WritableMemEnd
         /\ WritableMemEnd <= length /\ End(2) <= WritableStart
         /\ \A k \in 3..6 : Filled(k) => WritableStart <= First(k) /\ End(k) <= WritableMemEnd
         /\ \A k \in 3..4 : Filled(k) => End(k) <= WritableFileEnd
         /\ \A k \in 5..6 : Filled(k) => WritableFileEnd <= First(k)
         /\ separate => Multiple(WritableStart, Page)
<1> DEFINE K == {k \in 3..6 : Filled(k)}
           F == {k \in 3..4 : Filled(k)}
<1>0. /\ \A k \in 3..6 : k \in 1..6 /\ k \in Int /\ 2 < k
      /\ \A k \in 3..4 : k \in 3..6 /\ k \in 1..6
      /\ \A k \in 5..6 : k \in 3..6 /\ \A j \in 3..4 : j < k
      /\ 2 \in 1..6
  OBVIOUS
<1>1. /\ \A k \in 1..6 :
           /\ First(k) \in Nat /\ End(k) \in Nat /\ First(k) <= End(k) /\ End(k) <= length
           /\ End(k) = boundary[SectionOrder[k]][2] /\ First(k) = boundary[SectionOrder[k]][1]
      /\ \A j, k \in 1..6 : j < k => End(j) <= First(k)
      /\ length \in Nat
  BY Boundaries DEF First
<1>2. \A j, k \in 1..6 : j <= k => First(j) <= First(k) /\ End(j) <= End(k)
  <2> TAKE j, k \in 1..6
  <2>1. CASE j = k
    BY <1>1, <2>1
  <2>2. CASE j < k
    <3>1. /\ First(j) \in Nat /\ End(j) \in Nat /\ First(k) \in Nat /\ End(k) \in Nat
          /\ First(j) <= End(j) /\ First(k) <= End(k) /\ End(j) <= First(k)
      BY <1>1, <2>2
    <3> QED
      BY <3>1
  <2> QED
    BY <2>1, <2>2
<1>3. K \in SUBSET (1..6) /\ K # {}
  <2>1. PICK s \in Writable : TRUE
    OBVIOUS
  <2>2. PICK k \in 3..6 : s = SectionOrder[k] /\ Filled(k)
    BY WritableNumbers
  <2>3. k \in K
    BY <2>2
  <2> QED
    BY <1>0, <2>3
<1>4. PICK low, high \in K : \A i \in K : low <= i /\ i <= high
  <2> HIDE DEF K
  <2> QED
    BY <1>3, Extremes
<1>5. low \in 3..6 /\ high \in 3..6 /\ low \in 1..6 /\ high \in 1..6
      /\ Filled(low) /\ Filled(high)
  BY <1>0, <1>4
<1>6. WritableStart = First(low)
  <2> DEFINE S == {boundary[s][1] : s \in Writable}
  <2>1. First(low) \in S
    BY <1>1, <1>5, WritableNumbers
  <2>2. \A y \in S : y \in Int /\ First(low) <= y
    <3> TAKE y \in S
    <3>1. PICK s \in Writable : y = boundary[s][1]
      OBVIOUS
    <3>2. PICK k \in 3..6 : s = SectionOrder[k] /\ Filled(k)
      BY WritableNumbers
    <3>3. k \in K /\ k \in 1..6 /\ y = First(k)
      BY <1>0, <1>1, <3>1, <3>2
    <3> HIDE DEF K
    <3>4. low <= k
      BY <1>4, <3>3
    <3> QED
      BY <1>1, <1>2, <1>5, <3>3, <3>4
  <2> HIDE DEF S
  <2>3. Min(S) = First(low)
    BY <2>1, <2>2, MinIs
  <2> QED
    BY <2>3 DEF WritableStart, S
<1>7. WritableMemEnd = End(high)
  <2> DEFINE S == {boundary[s][2] : s \in Writable}
  <2>1. End(high) \in S
    BY <1>1, <1>5, WritableNumbers
  <2>2. \A y \in S : y \in Int /\ End(high) >= y
    <3> TAKE y \in S
    <3>1. PICK s \in Writable : y = boundary[s][2]
      OBVIOUS
    <3>2. PICK k \in 3..6 : s = SectionOrder[k] /\ Filled(k)
      BY WritableNumbers
    <3>3. k \in K /\ k \in 1..6 /\ y = End(k)
      BY <1>0, <1>1, <3>1, <3>2
    <3> HIDE DEF K
    <3>4. k <= high
      BY <1>4, <3>3
    <3>5. End(k) <= End(high)
      BY <1>2, <1>5, <3>3, <3>4
    <3> QED
      BY <1>1, <1>5, <3>3, <3>5
  <2> HIDE DEF S
  <2>3. Max(S) = End(high)
    BY <2>1, <2>2, MaxIs
  <2> QED
    BY <2>3 DEF WritableMemEnd, S
<1>8. /\ WritableFileEnd \in Nat /\ WritableStart <= WritableFileEnd
      /\ WritableFileEnd <= WritableMemEnd
      /\ \A k \in 3..4 : Filled(k) => End(k) <= WritableFileEnd
      /\ \A k \in 5..6 : Filled(k) => WritableFileEnd <= First(k)
  <2>1. CASE FileBacked = {}
    <3>1. WritableFileEnd = First(low)
      BY <1>6, <2>1 DEF WritableFileEnd
    <3>2. \A k \in 3..4 : ~Filled(k)
      BY <2>1, WritableNumbers
    <3>3. First(low) <= End(high)
      <4>1. low <= high
        BY <1>4
      <4>2. First(low) <= First(high) /\ First(high) <= End(high)
        BY <1>1, <1>2, <1>5, <4>1
      <4> QED
        BY <1>1, <1>5, <4>2
    <3>4. ASSUME NEW k \in 5..6, Filled(k) PROVE First(low) <= First(k)
      <4>1. k \in K /\ k \in 1..6
        BY <1>0, <3>4
      <4> HIDE DEF K
      <4>2. low <= k
        BY <1>4, <4>1
      <4> QED
        BY <1>2, <1>5, <4>1, <4>2
    <3>5. First(low) \in Nat /\ First(low) <= First(low)
      BY <1>1, <1>5
    <3> QED
      BY <1>6, <1>7, <3>1, <3>2, <3>3, <3>4, <3>5
  <2>2. CASE FileBacked # {}
    <3>1. F \in SUBSET (1..6) /\ F # {}
      <4>1. PICK s \in FileBacked : TRUE
        BY <2>2
      <4>2. PICK k \in 3..4 : s = SectionOrder[k] /\ Filled(k)
        BY WritableNumbers
      <4>3. k \in F
        BY <4>2
      <4> QED
        BY <1>0, <4>3
    <3>2. PICK last \in F : \A i \in F : i <= last
      <4> HIDE DEF F
      <4> QED
        BY <3>1, Extremes
    <3>3. last \in 3..4 /\ last \in 1..6 /\ Filled(last) /\ last \in K
      BY <1>0, <3>2
    <3>4. WritableFileEnd = End(last)
      <4> DEFINE S == {boundary[s][2] : s \in FileBacked}
      <4>1. End(last) \in S
        BY <1>1, <3>3, WritableNumbers
      <4>2. \A y \in S : y \in Int /\ End(last) >= y
        <5> TAKE y \in S
        <5>1. PICK s \in FileBacked : y = boundary[s][2]
          OBVIOUS
        <5>2. PICK k \in 3..4 : s = SectionOrder[k] /\ Filled(k)
          BY WritableNumbers
        <5>3. k \in F /\ k \in 1..6 /\ y = End(k)
          BY <1>0, <1>1, <5>1, <5>2
        <5> HIDE DEF F
        <5>4. k <= last
          BY <3>2, <5>3
        <5>5. End(k) <= End(last)
          BY <1>2, <3>3, <5>3, <5>4
        <5> QED
          BY <1>1, <3>3, <5>3, <5>5
      <4> HIDE DEF S
      <4>3. Max(S) = End(last)
        BY <4>1, <4>2, MaxIs
      <4> QED
        BY <2>2, <4>3 DEF WritableFileEnd, S
    <3>5. First(low) <= End(last) /\ End(last) <= End(high)
      <4>1. low <= last /\ last <= high
        <5> HIDE DEF K
        <5> QED
          BY <1>4, <3>3
      <4>2. First(low) <= First(last) /\ First(last) <= End(last) /\ End(last) <= End(high)
        BY <1>1, <1>2, <1>5, <3>3, <4>1
      <4> QED
        BY <1>1, <1>5, <3>3, <4>2
    <3>6. ASSUME NEW k \in 3..4, Filled(k) PROVE End(k) <= End(last)
      <4>1. k \in F /\ k \in 1..6
        BY <1>0, <3>6
      <4> HIDE DEF F
      <4>2. k <= last
        BY <3>2, <4>1
      <4> QED
        BY <1>2, <3>3, <4>1, <4>2
    <3>7. ASSUME NEW k \in 5..6, Filled(k) PROVE End(last) <= First(k)
      BY <1>0, <1>1, <3>3
    <3>8. End(last) \in Nat
      BY <1>1, <3>3
    <3> QED
      BY <1>6, <1>7, <3>4, <3>5, <3>6, <3>7, <3>8
  <2> QED
    BY <2>1, <2>2
<1>9. ASSUME NEW k \in 3..6, Filled(k)
      PROVE  WritableStart <= First(k) /\ End(k) <= WritableMemEnd
  <2>1. k \in K /\ k \in 1..6
    BY <1>0, <1>9
  <2> HIDE DEF K
  <2>2. low <= k /\ k <= high
    BY <1>4, <2>1
  <2> QED
    BY <1>2, <1>5, <1>6, <1>7, <2>1, <2>2
<1>10. ASSUME separate PROVE Multiple(WritableStart, Page)
  <2> DEFINE s == SectionOrder[low]
  <2>1. s \in {".data", ".tdata", ".tbss", ".bss"}
    BY <1>5, Numbers
  <2>2. Present(s)
    BY <1>5, Boundaries
  <2>3. ASSUME NEW k \in DOMAIN SectionOrder, NEW n \in DOMAIN SectionOrder,
               SectionOrder[n] = s, k \in 3..(n - 1)
        PROVE  ~Present(SectionOrder[k])
    <3>1. n = low /\ k \in 1..6
      BY <1>5, <2>3, Order
    <3>2. k \in 3..6 /\ ~(low <= k)
      BY <1>5, <2>3, <3>1
    <3>3. ~Filled(k)
      BY <1>4, <3>2
    <3> QED
      BY <3>1, <3>3, Boundaries
  <2>4. FirstWritable(s)
    BY <2>1, <2>2, <2>3 DEF FirstWritable
  <2>5. PageAligned(s)
    BY <1>10, <2>4 DEF PageAligned
  <2> QED
    BY <1>5, <1>6, <2>5, Boundaries
<1>11. End(2) <= WritableStart /\ WritableMemEnd <= length
       /\ WritableStart \in Nat /\ WritableMemEnd \in Nat
  BY <1>0, <1>1, <1>5, <1>6, <1>7
<1> QED
  BY <1>8, <1>9, <1>10, <1>11

-----------------------------------------------------------------------------
\* What holds of a written image.
LEMMA WrittenFacts ==
  ASSUME ImageInv, stage = "written"
  PROVE  /\ LayoutInv /\ PlacedInv /\ SymbolInv /\ Behind(stage)
         /\ \A d \in Exports : /\ SymbolOf(d).name \in DOMAIN definitions
                               /\ definitions[SymbolOf(d).name] = PlaceOf(d)
         /\ \A d, e \in Exports : SymbolOf(d).name = SymbolOf(e).name => d = e
         /\ \A name \in DOMAIN definitions : \E d \in Exports : SymbolOf(d).name = name
         /\ \A o \in Objects : \A r \in DOMAIN Relocs(o) :
              /\ field[Place(o, Relocs(o)[r])] = Value(o, Relocs(o)[r], RelocSymbol(o, r))
              /\ RelocationError(o, Relocs(o)[r], RelocSymbol(o, r)) = "none"
<1>1. \A what, o, k : Done(what, o, k)
  BY DEF Done
<1>2. \A o \in Objects : \A r \in DOMAIN Relocs(o) :
        /\ field[Place(o, Relocs(o)[r])] = Value(o, Relocs(o)[r], RelocSymbol(o, r))
        /\ RelocationError(o, Relocs(o)[r], RelocSymbol(o, r)) = "none"
  BY <1>1 DEF ImageInv, FieldInv
<1>3. /\ \A d \in Exports : /\ SymbolOf(d).name \in DOMAIN definitions
                            /\ definitions[SymbolOf(d).name] = PlaceOf(d)
      /\ \A d, e \in Exports : SymbolOf(d).name = SymbolOf(e).name => d = e
      /\ \A name \in DOMAIN definitions : \E d \in Exports : SymbolOf(d).name = name
  BY <1>1 DEF ImageInv, SymbolInv
<1> QED
  BY <1>2, <1>3, Stages DEF ImageInv

LEMMA OneDefiner ==
  ASSUME ImageInv, stage = "written", NEW name \in DOMAIN definitions
  PROVE  \E d \in Exports : Definers(name) = {d} /\ definitions[name] = PlaceOf(d)
<1>1. PICK d \in Exports : SymbolOf(d).name = name
  BY WrittenFacts
<1>2. d \in Definers(name) /\ definitions[name] = PlaceOf(d)
  BY <1>1, ExportsDefine, WrittenFacts
<1>3. ASSUME NEW e \in Definers(name) PROVE e = d
  <2>1. name = SymbolOf(e).name
    BY <1>3, ExportsDefine
  <2>2. e \in Exports
    BY <1>3, <2>1, ExportsDefine
  <2> QED
    BY <1>1, <2>1, <2>2, WrittenFacts
<1> QED
  BY <1>2, <1>3

\* The target the linker finds is the address ELF gives the symbol.
LEMMA TargetMeant ==
  ASSUME ImageInv, stage = "written", NEW o \in Objects, NEW symbol, Resolved(o, symbol)
  PROVE  Target(o, symbol) = Meaning(o, symbol)
<1>1. CASE Located(o, symbol)
  BY <1>1 DEF Target, Meaning, SymbolAddress
<1>2. CASE ~Located(o, symbol)
  <2>1. symbol.name \in DOMAIN definitions
    BY <1>2 DEF Resolved
  <2>2. PICK d \in Exports :
          Definers(symbol.name) = {d} /\ definitions[symbol.name] = PlaceOf(d)
    BY <2>1, OneDefiner
  <2>3. (CHOOSE e \in Definers(symbol.name) : TRUE) = d
    BY <2>2
  <2>4. Target(o, symbol) = PlaceOf(d)
    BY <1>2, <2>2 DEF Target
  <2>5. PlaceOf(d) = Address(<<d[1], Symbols(d[1])[d[2]].section>>) + Symbols(d[1])[d[2]].value
    BY DEF PlaceOf, SymbolOf, SymbolAddress
  <2> QED
    BY <1>2, <2>3, <2>4, <2>5 DEF Meaning
<1> QED
  BY <1>1, <1>2

\* The linker calls a name duplicate or undefined only where it is, and each name a
\* relocation of a written image needs has one definition among all objects, however
\* many objects and symbols there are (link, the loops over the symbols and the
\* relocations).
THEOREM NamesDefinedOnce == LinkSpec => []NamesResolved
<1>1. ImageInv => NamesResolved
  <2> SUFFICES ASSUME ImageInv PROVE NamesResolved
    OBVIOUS
  <2>1. stage = "duplicate symbol" =>
          \E o \in Objects : \E k \in DOMAIN Symbols(o) :
            LET others == Definers(Symbols(o)[k].name) \ {<<o, k>>}
            IN  <<o, k>> \in Definers(Symbols(o)[k].name) /\ others # {}
    <3> SUFFICES ASSUME stage = "duplicate symbol"
                 PROVE  \E o \in Objects : \E k \in DOMAIN Symbols(o) :
                          /\ <<o, k>> \in Definers(Symbols(o)[k].name)
                          /\ Definers(Symbols(o)[k].name) \ {<<o, k>>} # {}
      OBVIOUS
    <3>1. PICK o \in Objects : \E k \in DOMAIN Symbols(o) :
            /\ <<o, k>> \in Definers(Symbols(o)[k].name)
            /\ \E d \in Definers(Symbols(o)[k].name) : d # <<o, k>>
      BY DEF ImageInv, NoNameInv
    <3>2. PICK k \in DOMAIN Symbols(o) :
            /\ <<o, k>> \in Definers(Symbols(o)[k].name)
            /\ \E d \in Definers(Symbols(o)[k].name) : d # <<o, k>>
      BY <3>1
    <3>3. Definers(Symbols(o)[k].name) \ {<<o, k>>} # {}
      BY <3>2
    <3> QED
      BY <3>2, <3>3
  <2>2. stage = "undefined symbol" =>
          \E o \in Objects : \E k \in DOMAIN Symbols(o) :
            ~Located(o, Symbols(o)[k]) /\ Definers(Symbols(o)[k].name) = {}
    BY DEF ImageInv, NoNameInv
  <2>3. ASSUME stage = "written", NEW o \in Objects, NEW r \in DOMAIN Relocs(o),
               Relocs(o)[r].kind # "relative", ~Located(o, RelocSymbol(o, r))
        PROVE  \E d \in Definers(RelocSymbol(o, r).name) :
                 Definers(RelocSymbol(o, r).name) = {d}
    <3>1. Resolved(o, RelocSymbol(o, r))
      BY <2>3, WrittenFacts, TargetTyped
    <3>2. RelocSymbol(o, r).name \in DOMAIN definitions
      BY <2>3, <3>1 DEF Resolved
    <3> QED
      BY <2>3, <3>2, OneDefiner
  <2> QED
    BY <2>1, <2>2, <2>3 DEF NamesResolved, RelocSymbol
<1> QED
  BY <1>1, ImageCorrect, PTL

\* Every relocated field of a written image holds S + A, S + A - P or the distance
\* from the thread template for the symbol ELF means, and no other relocation has
\* been written over it, for every list of well-formed objects (link, the loop over
\* the relocations).
THEOREM RelocationsStored == LinkSpec => []RelocationsHold
<1>1. ImageInv => RelocationsHold
  <2> SUFFICES ASSUME ImageInv, stage = "written", NEW o \in Objects,
                      NEW r \in DOMAIN Relocs(o)
               PROVE  LET reloc == Relocs(o)[r]
                          symbol == Symbols(o)[reloc.symbol]
                          stored == field[Place(o, reloc)]
                      IN  CASE reloc.kind = "relative" -> stored = LoadBase + reloc.addend
                            [] reloc.kind = "pcrel" ->
                                 stored + Place(o, reloc) = Meaning(o, symbol) + reloc.addend
                            [] reloc.kind \in {"abs32", "pointer"} ->
                                 stored = LoadBase + Meaning(o, symbol) + reloc.addend
                            [] reloc.kind = "tls" ->
                                 stored + boundary[".tdata"][1] = Meaning(o, symbol) + reloc.addend
    BY DEF RelocationsHold
  <2> DEFINE reloc == Relocs(o)[r]
             symbol == Symbols(o)[reloc.symbol]
             stored == field[Place(o, reloc)]
  <2>1. RelocSymbol(o, r) = symbol
    BY DEF RelocSymbol
  <2>2. /\ stored = Value(o, reloc, symbol) /\ reloc.kind \in Kind
        /\ reloc.kind # "relative" =>
             Target(o, symbol) \in Nat /\ Resolved(o, symbol)
    <3>1. /\ LayoutInv /\ SymbolInv /\ stored = Value(o, reloc, RelocSymbol(o, r))
          /\ RelocationError(o, reloc, RelocSymbol(o, r)) = "none"
      BY WrittenFacts
    <3>2. /\ reloc.kind \in Kind
          /\ reloc.kind # "relative" =>
               Target(o, RelocSymbol(o, r)) \in Nat /\ Resolved(o, RelocSymbol(o, r))
      BY <3>1, TargetTyped
    <3> QED
      BY <2>1, <3>1, <3>2
  <2>3. reloc.kind # "relative" => Target(o, symbol) = Meaning(o, symbol)
    BY <2>2, TargetMeant
  <2>4. Place(o, reloc) \in Nat /\ reloc.addend \in Int
    <3>1. Place(o, reloc) \in Nat
      BY WrittenFacts, RelocPlace
    <3>2. reloc.addend \in Int
      BY RelocTyped DEF ImageInv, LayoutInv, TypeInv
    <3> QED
      BY <3>1, <3>2
  <2>5. TlsBase \in Nat /\ TlsBase = boundary[".tdata"][1]
    BY DEF TlsBase, ImageInv, LayoutInv, TypeInv, Output
  <2> SUFFICES CASE reloc.kind = "relative" -> stored = LoadBase + reloc.addend
                 [] reloc.kind = "pcrel" ->
                      stored + Place(o, reloc) = Meaning(o, symbol) + reloc.addend
                 [] reloc.kind \in {"abs32", "pointer"} ->
                      stored = LoadBase + Meaning(o, symbol) + reloc.addend
                 [] reloc.kind = "tls" ->
                      stored + boundary[".tdata"][1] = Meaning(o, symbol) + reloc.addend
    OBVIOUS
  <2> HIDE DEF reloc, symbol, stored
  <2>6. CASE reloc.kind = "relative"
    BY <2>2, <2>6 DEF Value
  <2>7. CASE reloc.kind = "pcrel"
    BY <2>2, <2>3, <2>4, <2>7 DEF Value
  <2>8. CASE reloc.kind \in {"abs32", "pointer"}
    BY <2>2, <2>3, <2>8 DEF Value
  <2>9. CASE reloc.kind = "tls"
    BY <2>2, <2>3, <2>4, <2>5, <2>9 DEF Value
  <2> QED
    BY <2>2, <2>6, <2>7, <2>8, <2>9 DEF Kind
<1> QED
  BY <1>1, ImageCorrect, PTL

-----------------------------------------------------------------------------
\* The boundaries of a written image by the names of the output sections.
LEMMA NamedBoundaries ==
  ASSUME LayoutInv, PlacedInv, Behind(stage), NEW k \in 1..6
  PROVE  /\ boundary[SectionOrder[k]][1] = First(k) /\ boundary[SectionOrder[k]][2] = End(k)
         /\ First(k) \in Nat /\ End(k) \in Nat /\ First(k) <= End(k) /\ End(k) <= length
         /\ length \in Nat
         /\ Filled(k) <=> boundary[SectionOrder[k]][2] > boundary[SectionOrder[k]][1]
<1>1. /\ boundary[SectionOrder[k]][1] = First(k) /\ boundary[SectionOrder[k]][2] = End(k)
      /\ First(k) \in Nat /\ End(k) \in Nat /\ First(k) <= End(k) /\ End(k) <= length
      /\ length \in Nat
  BY Boundaries DEF First
<1>2. Filled(k) <=> End(k) > First(k)
  BY <1>1 DEF Filled
<1> QED
  BY <1>1, <1>2

\* The segments of a written executable: one for the code, one for the constants and
\* one for all that is writable.
Portion(k, flags) == Segment(First(k), End(k), End(k), flags)
DataSegment == Segment(WritableStart, WritableFileEnd, WritableMemEnd, "RW")

LEMMA GroupCases ==
  ASSUME LayoutInv, PlacedInv, Behind(stage)
  PROVE  \A g : g \in Groups <=> \/ Filled(1) /\ g = Portion(1, "RX")
                                 \/ Filled(2) /\ g = Portion(2, "R")
                                 \/ Writable # {} /\ g = DataSegment
<1> DEFINE Of(s) == Segment(boundary[s][1], boundary[s][2], boundary[s][2],
                            IF s = ".text" THEN "RX" ELSE "R")
           fixed == {Of(s) : s \in Used({".text", ".rodata"})}
           data == IF Writable = {} THEN {} ELSE {DataSegment}
<1>1. Groups = fixed \cup data
  BY DEF Groups, DataSegment
<1>2. 1 \in 1..6 /\ 2 \in 1..6
  OBVIOUS
<1>3. Of(".text") = Portion(1, "RX") /\ Of(".rodata") = Portion(2, "R")
  BY <1>2, NamedBoundaries, Numbers DEF Portion
<1>4. /\ ".text" \in Used({".text", ".rodata"}) <=> Filled(1)
      /\ ".rodata" \in Used({".text", ".rodata"}) <=> Filled(2)
      /\ \A s \in Used({".text", ".rodata"}) : s = ".text" \/ s = ".rodata"
  <2>1. /\ Filled(1) <=> boundary[".text"][2] > boundary[".text"][1]
        /\ Filled(2) <=> boundary[".rodata"][2] > boundary[".rodata"][1]
    BY <1>2, NamedBoundaries, Numbers
  <2> QED
    BY <2>1 DEF Used
<1> HIDE DEF Of
<1>5. \A g : g \in fixed <=> \/ Filled(1) /\ g = Portion(1, "RX")
                             \/ Filled(2) /\ g = Portion(2, "R")
  BY <1>3, <1>4
<1>6. \A g : g \in data <=> Writable # {} /\ g = DataSegment
  OBVIOUS
<1> HIDE DEF fixed, data
<1> QED
  BY <1>1, <1>5, <1>6

LEMMA SegmentFields ==
  ASSUME NEW start, NEW file, NEW mem, NEW flags
  PROVE  /\ Segment(start, file, mem, flags).start = start
         /\ Segment(start, file, mem, flags).fileEnd = file
         /\ Segment(start, file, mem, flags).memEnd = mem
         /\ Segment(start, file, mem, flags).flags = flags
BY DEF Segment

LEMMA QuotientBelow ==
  ASSUME NEW total \in Nat, NEW unit \in Nat \ {0}
  PROVE  total \div unit \in Nat /\ (total \div unit) * unit <= total
<1> DEFINE quotient == total \div unit
<1>1. quotient \in Nat /\ (total % unit) \in 0..(unit - 1)
      /\ total = quotient * unit + (total % unit)
  OBVIOUS
<1>2. quotient * unit \in Nat
  BY <1>1
<1> QED
  BY <1>1, <1>2

\* What ends before the start of a page lies in earlier pages.
LEMMA PageApart ==
  ASSUME NEW end \in Nat, NEW start \in Nat, 0 < end, end <= start, Multiple(start, Page)
  PROVE  (end - 1) \div Page < start \div Page
<1> DEFINE before == (end - 1) \div Page
<1>1. Page \in Nat \ {0} /\ end - 1 \in Nat
  BY PageAssumption
<1>2. PICK q \in Nat : start = q * Page
  BY DEF Multiple
<1>3. start \div Page = q
  BY <1>1, <1>2
<1>4. before \in Nat /\ before * Page <= end - 1
  BY <1>1, QuotientBelow
<1> HIDE DEF before
<1>5. ASSUME q <= before PROVE FALSE
  <2>1. PICK d \in Nat : before = q + d
    <3>1. before - q \in Nat /\ before = q + (before - q)
      BY <1>4, <1>5
    <3> QED
      BY <3>1
  <2>2. before * Page = q * Page + d * Page /\ d * Page \in Nat /\ q * Page \in Nat
    BY <1>1, <2>1
  <2>3. before * Page \in Nat /\ q * Page <= before * Page
    BY <2>2
  <2> QED
    BY <1>1, <1>2, <1>4, <2>3
<1>6. before < q
  BY <1>4, <1>5
<1> QED
  BY <1>3, <1>6 DEF before

\* Segments of a written executable with different permissions share no page,
\* whatever the page size, the sections and their alignments (page_separate in link,
\* the groups of make_executable).
THEOREM SegmentsApart == LinkSpec => []SegmentsSeparate
<1>1. ImageInv => SegmentsSeparate
  <2> SUFFICES ASSUME ImageInv, segments # {} PROVE SegmentsSeparate
    BY DEF SegmentsSeparate
  <2>1. stage = "written" /\ separate /\ segments = Groups
    BY DEF ImageInv, OutputInv
  <2>2. LayoutInv /\ PlacedInv /\ Behind(stage)
    BY <2>1, WrittenFacts
  <2>3. 1 \in 1..6 /\ 2 \in 1..6 /\ 1 < 2
    OBVIOUS
  <2>4. /\ First(1) \in Nat /\ End(1) \in Nat /\ First(2) \in Nat /\ End(2) \in Nat
        /\ First(1) <= End(1) /\ End(1) <= First(2) /\ First(2) <= End(2)
    BY <2>2, <2>3, Boundaries
  <2>5. ASSUME Filled(2) PROVE Multiple(First(2), Page)
    <3>1. Present(SectionOrder[2])
      BY <2>2, <2>3, <2>5, Boundaries
    <3>2. PageAligned(SectionOrder[2])
      BY <2>1, <3>1, Numbers DEF PageAligned
    <3> QED
      BY <2>2, <2>3, <3>2, Boundaries
  <2>6. ASSUME Writable # {}
        PROVE  /\ WritableStart \in Nat /\ End(2) <= WritableStart
               /\ Multiple(WritableStart, Page)
    BY <2>1, <2>2, <2>6, WritableFacts
  <2>7. ASSUME Filled(1), Filled(2)
        PROVE  (Portion(1, "RX").memEnd - 1) \div Page < Portion(2, "R").start \div Page
    <3>1. 0 < End(1)
      BY <2>4, <2>7 DEF Filled
    <3>2. (End(1) - 1) \div Page < First(2) \div Page
      BY <2>4, <2>5, <2>7, <3>1, PageApart
    <3> QED
      BY <3>2, SegmentFields DEF Portion
  <2>8. ASSUME NEW k \in 1..2, NEW flags, Filled(k), Writable # {}
        PROVE  (Portion(k, flags).memEnd - 1) \div Page < DataSegment.start \div Page
    <3>1. End(k) \in Nat /\ 0 < End(k) /\ End(k) <= WritableStart
      <4>1. CASE k = 1
        BY <2>4, <2>6, <2>8, <4>1 DEF Filled
      <4>2. CASE k = 2
        BY <2>4, <2>6, <2>8, <4>2 DEF Filled
      <4> QED
        BY <4>1, <4>2
    <3>2. (End(k) - 1) \div Page < WritableStart \div Page
      BY <2>6, <2>8, <3>1, PageApart
    <3> QED
      BY <3>2, SegmentFields DEF Portion, DataSegment
  <2>9. ASSUME NEW g \in segments, NEW h \in segments, g # h
        PROVE  \/ (g.memEnd - 1) \div Page < h.start \div Page
               \/ (h.memEnd - 1) \div Page < g.start \div Page
    <3> DEFINE Shape(x) == \/ Filled(1) /\ x = Portion(1, "RX")
                           \/ Filled(2) /\ x = Portion(2, "R")
                           \/ Writable # {} /\ x = DataSegment
    <3>1. Shape(g) /\ Shape(h)
      BY <2>1, <2>2, GroupCases
    <3>2. 1 \in 1..2 /\ 2 \in 1..2
      OBVIOUS
    <3>3. CASE g = Portion(1, "RX") /\ Filled(1)
      BY <2>7, <2>8, <2>9, <3>1, <3>2, <3>3
    <3>4. CASE g = Portion(2, "R") /\ Filled(2)
      BY <2>7, <2>8, <2>9, <3>1, <3>2, <3>4
    <3>5. CASE g = DataSegment /\ Writable # {}
      BY <2>8, <2>9, <3>1, <3>2, <3>5
    <3> QED
      BY <3>1, <3>3, <3>4, <3>5
  <2> QED
    BY <2>9 DEF SegmentsSeparate
<1> QED
  BY <1>1, ImageCorrect, PTL

-----------------------------------------------------------------------------
\* The thread template lies between the boundaries of .tdata and .tbss.
LEMMA TemplateFacts ==
  ASSUME LayoutInv, PlacedInv, Behind(stage)
  PROVE  /\ TlsBase = First(4)
         /\ \A g \in TlsGroups : g = Segment(First(4), End(4), End(5), "R")
         /\ First(4) \in Nat /\ End(4) \in Nat /\ First(5) \in Nat /\ End(5) \in Nat
         /\ First(4) <= End(4) /\ End(4) <= First(5) /\ First(5) <= End(5)
<1>1. 4 \in 1..6 /\ 5 \in 1..6 /\ 4 < 5
  OBVIOUS
<1>2. /\ First(4) \in Nat /\ End(4) \in Nat /\ First(5) \in Nat /\ End(5) \in Nat
      /\ First(4) <= End(4) /\ End(4) <= First(5) /\ First(5) <= End(5)
  BY <1>1, Boundaries
<1>3. /\ boundary[".tdata"][1] = First(4) /\ boundary[".tdata"][2] = End(4)
      /\ boundary[".tbss"][2] = End(5)
  BY <1>1, NamedBoundaries, Numbers
<1> QED
  BY <1>2, <1>3 DEF TlsBase, TlsGroups, TlsEnd

\* The end of the file is behind every section with contents.
LEMMA FileEndFacts ==
  ASSUME LayoutInv, PlacedInv, Behind(stage)
  PROVE  /\ FileEnd \in 0..length /\ End(1) <= FileEnd /\ End(2) <= FileEnd
         /\ Writable # {} => WritableFileEnd <= FileEnd
<1>1. 1 \in 1..6 /\ 2 \in 1..6 /\ 1 < 2
  OBVIOUS
<1>2. /\ End(1) \in Nat /\ First(2) \in Nat /\ End(2) \in Nat /\ length \in Nat
      /\ End(1) <= First(2) /\ First(2) <= End(2) /\ End(2) <= length
  BY <1>1, Boundaries
<1>3. CASE Writable = {}
  BY <1>2, <1>3 DEF FileEnd
<1>4. CASE Writable # {}
  <2>1. /\ WritableStart \in Nat /\ WritableFileEnd \in Nat /\ WritableMemEnd \in Nat
        /\ WritableStart <= WritableFileEnd /\ WritableFileEnd <= WritableMemEnd
        /\ WritableMemEnd <= length /\ End(2) <= WritableStart
    BY <1>4, WritableFacts
  <2>2. FileEnd = WritableFileEnd \/ FileEnd = length
    BY DEF FileEnd
  <2> QED
    BY <1>2, <2>1, <2>2
<1> QED
  BY <1>3, <1>4

\* The definitions and fields refer to cells of the image, the file is no longer than
\* the image, and every header describes a stretch of memory with the stretch of the
\* file at its start (link, make_executable).
THEOREM LinkTypes == LinkSpec => []LinkTypeOK
<1>1. ImageInv => LinkTypeOK
  <2> SUFFICES ASSUME ImageInv PROVE LinkTypeOK
    OBVIOUS
  <2>1. LayoutTypeOK
    <3>1. \A c \in DOMAIN local : c[1] \in Objects /\ c[2] \in DOMAIN Sections(c[1])
      BY DEF ImageInv, LayoutInv, LocalInv, Known
    <3>2. DOMAIN base \subseteq Merged
      BY DEF ImageInv, LayoutInv, BaseInv
    <3> QED
      BY <3>1, <3>2 DEF ImageInv, LayoutInv, TypeInv, LayoutTypeOK
  <2>2. \A name \in DOMAIN definitions : definitions[name] \in Nat
    BY DEF ImageInv, SymbolInv
  <2>3. \A place \in DOMAIN field : place < length /\ field[place] \in Int
    BY DEF ImageInv, FieldInv
  <2>4. fileEnd \in 0..length /\ \A g \in segments \cup tls :
                                   g.start <= g.fileEnd /\ g.fileEnd <= g.memEnd
    <3>0. length \in Nat
      BY DEF ImageInv, LayoutInv, TypeInv
    <3>1. CASE stage # "written"
      BY <3>0, <3>1 DEF ImageInv, OutputInv
    <3>2. CASE stage = "written" /\ ~separate
      BY <3>0, <3>2 DEF ImageInv, OutputInv
    <3>3. CASE stage = "written" /\ separate
      <4>1. LayoutInv /\ PlacedInv /\ Behind(stage)
        BY <3>3, WrittenFacts
      <4>2. segments = Groups /\ tls = TlsGroups /\ fileEnd = FileEnd
        BY <3>3 DEF ImageInv, OutputInv
      <4>3. \A g \in TlsGroups : g.start <= g.fileEnd /\ g.fileEnd <= g.memEnd
        <5>1. First(4) <= End(4) /\ End(4) <= End(5)
          BY <4>1, TemplateFacts
        <5> QED
          BY <4>1, <5>1, TemplateFacts, SegmentFields
      <4>4. ASSUME NEW g \in Groups
            PROVE  g.start <= g.fileEnd /\ g.fileEnd <= g.memEnd
        <5>1. ASSUME NEW k \in 1..6, NEW flags, g = Portion(k, flags)
              PROVE  g.start <= g.fileEnd /\ g.fileEnd <= g.memEnd
          <6>1. g.start = First(k) /\ g.fileEnd = End(k) /\ g.memEnd = End(k)
            BY <5>1, SegmentFields DEF Portion
          <6>2. First(k) <= End(k) /\ End(k) \in Nat
            BY <4>1, Boundaries
          <6> QED
            BY <6>1, <6>2
        <5>2. ASSUME Writable # {}, g = DataSegment
              PROVE  g.start <= g.fileEnd /\ g.fileEnd <= g.memEnd
          BY <4>1, <5>2, WritableFacts, SegmentFields DEF DataSegment
        <5>3. 1 \in 1..6 /\ 2 \in 1..6
          OBVIOUS
        <5> QED
          BY <4>1, <5>1, <5>2, <5>3, GroupCases
      <4>5. fileEnd \in 0..length
        BY <4>1, <4>2, FileEndFacts
      <4> QED
        BY <4>2, <4>3, <4>4, <4>5
    <3> QED
      BY <3>1, <3>2, <3>3
  <2> QED
    BY <2>1, <2>2, <2>3, <2>4 DEF LinkTypeOK
<1> QED
  BY <1>1, ImageCorrect, PTL

-----------------------------------------------------------------------------
\* A loader that maps the segments of a written executable puts each input section
\* with its permissions where the linker addressed it, contents from the file and
\* zeros behind it, for every list of objects (make_executable).
THEOREM LoadsAsLinked == LinkSpec => []LoadedAsLinked
<1>1. ImageInv => LoadedAsLinked
  <2> SUFFICES ASSUME ImageInv, stage = "written", separate,
                      NEW c \in Contribution, SizeOf(c) > 0
               PROVE  \E g \in segments :
                        /\ g.flags = Permission(MergedOf(c)[2])
                        /\ g.start <= Address(c) /\ Address(c) + SizeOf(c) <= g.memEnd
                        /\ IF MergedOf(c)[2] \in Nobits THEN g.fileEnd <= Address(c)
                           ELSE Address(c) + SizeOf(c) <= g.fileEnd /\ g.fileEnd <= fileEnd
    BY DEF LoadedAsLinked
  <2> DEFINE s == MergedOf(c)[2]
             end == Address(c) + SizeOf(c)
  <2>1. LayoutInv /\ PlacedInv /\ Behind(stage) /\ segments = Groups /\ fileEnd = FileEnd
    BY WrittenFacts DEF ImageInv, OutputInv
  <2>2. PICK k \in 1..6 :
          /\ s = SectionOrder[k] /\ First(k) <= Address(c) /\ end <= End(k)
          /\ Address(c) \in Nat /\ SizeOf(c) \in Nat /\ Filled(k)
    BY <2>1, ContributionPlace
  <2>3. end \in Nat /\ First(k) \in Nat /\ End(k) \in Nat
    BY <2>1, <2>2, Boundaries
  <2> SUFFICES \E g \in segments :
                 /\ g.flags = Permission(s) /\ g.start <= Address(c) /\ end <= g.memEnd
                 /\ IF s \in Nobits THEN g.fileEnd <= Address(c)
                    ELSE end <= g.fileEnd /\ g.fileEnd <= fileEnd
    OBVIOUS
  <2> HIDE DEF s, end
  <2>4. ASSUME NEW flags, Portion(k, flags) \in segments, flags = Permission(s),
               s \notin Nobits, End(k) <= FileEnd
        PROVE  \E g \in segments :
                 /\ g.flags = Permission(s) /\ g.start <= Address(c) /\ end <= g.memEnd
                 /\ IF s \in Nobits THEN g.fileEnd <= Address(c)
                    ELSE end <= g.fileEnd /\ g.fileEnd <= fileEnd
    <3> DEFINE g == Portion(k, flags)
    <3>1. g.flags = flags /\ g.start = First(k) /\ g.fileEnd = End(k) /\ g.memEnd = End(k)
      BY SegmentFields DEF Portion
    <3>2. g \in segments
      BY <2>4
    <3> HIDE DEF g
    <3> QED
      BY <2>1, <2>2, <2>4, <3>1, <3>2
  <2>5. CASE k = 1
    <3>1. s = ".text" /\ Permission(s) = "RX" /\ s \notin Nobits
      BY <2>2, <2>5, Numbers DEF Permission, Nobits
    <3>2. Portion(1, "RX") \in segments
      BY <2>1, <2>2, <2>5, GroupCases
    <3> QED
      BY <2>1, <2>4, <2>5, <3>1, <3>2, FileEndFacts
  <2>6. CASE k = 2
    <3>1. s = ".rodata" /\ Permission(s) = "R" /\ s \notin Nobits
      BY <2>2, <2>6, Numbers DEF Permission, Nobits
    <3>2. Portion(2, "R") \in segments
      BY <2>1, <2>2, <2>6, GroupCases
    <3> QED
      BY <2>1, <2>4, <2>6, <3>1, <3>2, FileEndFacts
  <2>7. CASE k \in 3..6
    <3> DEFINE g == DataSegment
    <3>1. SectionOrder[k] \in Writable
      BY <2>1, <2>2, <2>7, WritableNumbers
    <3>2. g \in segments
      BY <2>1, <3>1, GroupCases
    <3>3. /\ g.flags = "RW" /\ g.start = WritableStart /\ g.fileEnd = WritableFileEnd
          /\ g.memEnd = WritableMemEnd
      BY SegmentFields DEF DataSegment
    <3>4. /\ WritableStart \in Nat /\ WritableFileEnd \in Nat /\ WritableMemEnd \in Nat
          /\ WritableStart <= First(k) /\ End(k) <= WritableMemEnd
          /\ k \in 3..4 => End(k) <= WritableFileEnd
          /\ k \in 5..6 => WritableFileEnd <= First(k)
          /\ WritableFileEnd <= FileEnd
      BY <2>1, <2>2, <2>7, <3>1, WritableFacts, FileEndFacts
    <3> HIDE DEF g
    <3>5. g.start <= Address(c) /\ end <= g.memEnd
      BY <2>2, <2>3, <3>3, <3>4
    <3>6. CASE k \in 3..4
      <4>1. s \in {".data", ".tdata"}
        BY <2>2, <3>6, Numbers
      <4>2. s \notin Nobits /\ Permission(s) = "RW"
        BY <4>1 DEF Nobits, Permission
      <4>3. end <= g.fileEnd /\ g.fileEnd <= fileEnd
        BY <2>1, <2>2, <2>3, <3>3, <3>4, <3>6
      <4> QED
        BY <3>2, <3>3, <3>5, <4>2, <4>3
    <3>7. CASE k \in 5..6
      <4>1. s \in {".tbss", ".bss"}
        BY <2>2, <3>7, Numbers
      <4>2. s \in Nobits /\ Permission(s) = "RW"
        BY <4>1 DEF Nobits, Permission
      <4>3. g.fileEnd <= Address(c)
        BY <2>2, <2>3, <3>3, <3>4, <3>7
      <4> QED
        BY <3>2, <3>3, <3>5, <4>2, <4>3
    <3> QED
      BY <2>7, <3>6, <3>7
  <2> QED
    BY <2>5, <2>6, <2>7
<1> QED
  BY <1>1, ImageCorrect, PTL

-----------------------------------------------------------------------------
\* When the thread-local references of the objects stay in the sections of their
\* symbols, those of a written image stay in the template PT_TLS describes, counted
\* from its start (the SECREL relocations of link, the PT_TLS of make_executable).
THEOREM ThreadPointersInside ==
  ASSUME ThreadReferencesInside
  PROVE  LinkSpec => []TlsInTemplate
<1>1. ImageInv => TlsInTemplate
  <2> SUFFICES ASSUME ImageInv, stage = "written", NEW g \in tls, NEW o \in Objects,
                      NEW r \in DOMAIN Relocs(o), Relocs(o)[r].kind = "tls"
               PROVE  field[Place(o, Relocs(o)[r])] \in 0..(g.memEnd - g.start - 1)
    BY DEF TlsInTemplate
  <2> DEFINE reloc == Relocs(o)[r]
             symbol == RelocSymbol(o, r)
             c == <<o, symbol.section>>
             stored == field[Place(o, reloc)]
  <2>1. LayoutInv /\ PlacedInv /\ SymbolInv /\ Behind(stage) /\ tls = TlsGroups
    <3>1. separate
      BY DEF ImageInv, OutputInv
    <3> QED
      BY <3>1, WrittenFacts DEF ImageInv, OutputInv
  <2>2. g.start = First(4) /\ g.memEnd = End(5)
    BY <2>1, TemplateFacts, SegmentFields
  <2>3. stored = Value(o, reloc, symbol) /\ RelocationError(o, reloc, symbol) = "none"
    BY WrittenFacts
  <2>4. IsTls(o, symbol)
    BY <2>1, <2>3, TargetTyped
  <2>5. c \in Contribution /\ Sections(o)[symbol.section].output \in Tls
        /\ Located(o, symbol)
    BY <2>4 DEF IsTls, Located, Contribution
  <2>6. Known(c)
    BY <2>1, <2>5 DEF LayoutInv, LocalInv, Contribution
  <2>7. symbol.value + reloc.addend \in 0..(SizeOf(c) - 1)
    <3>1. files \in Input /\ o \in DOMAIN files
      <4>1. files \in Input
        BY <2>1 DEF LayoutInv, TypeInv
      <4>2. DOMAIN files = 1..Len(files)
        BY <4>1, InputAssumption
      <4> QED
        BY <4>1, <4>2 DEF Objects
    <3>2. /\ r \in DOMAIN files[o].relocs /\ reloc = files[o].relocs[r]
          /\ symbol = files[o].symbols[reloc.symbol]
      BY DEF Relocs, Symbols, RelocSymbol
    <3>3. symbol.section \in DOMAIN files[o].sections
          /\ SizeOf(c) = files[o].sections[symbol.section].size
      BY <2>6 DEF Known, Sections, SizeOf
    <3>4. reloc.kind = "tls"
      OBVIOUS
    <3> HIDE DEF reloc, symbol, c
    <3> QED
      BY <3>1, <3>2, <3>3, <3>4 DEF ThreadReferencesInside
  <2>8. symbol.value \in Nat /\ reloc.addend \in Int
    <3>1. reloc.addend \in Int /\ reloc.symbol \in DOMAIN Symbols(o)
      BY <2>1, RelocTyped DEF LayoutInv, TypeInv
    <3> QED
      BY <2>1, <3>1, SymbolTyped DEF LayoutInv, TypeInv, RelocSymbol
  <2>9. SizeOf(c) \in Nat
    BY <2>1, <2>6, KnownTyped DEF LayoutInv, TypeInv
  <2>10. PICK k \in 1..6 :
          /\ MergedOf(c)[2] = SectionOrder[k] /\ First(k) <= Address(c)
          /\ Address(c) + SizeOf(c) <= End(k)
          /\ Address(c) \in Nat
    <3>1. SizeOf(c) > 0
      <4> HIDE DEF c, symbol, reloc
      <4> QED
        BY <2>7, <2>8, <2>9
    <3> HIDE DEF c
    <3> QED
      BY <2>1, <2>5, <3>1, ContributionPlace
  <2>11. k = 4 \/ k = 5
    <3>1. SectionOrder[k] \in {".tdata", ".tbss"}
      BY <2>5, <2>10 DEF MergedOf, Tls
    <3>2. k = 1 \/ k = 2 \/ k = 3 \/ k = 4 \/ k = 5 \/ k = 6
      OBVIOUS
    <3> QED
      BY <3>1, <3>2, Numbers
  <2>12. /\ First(4) \in Nat /\ End(4) \in Nat /\ First(5) \in Nat /\ End(5) \in Nat
         /\ First(4) <= End(4) /\ End(4) <= First(5) /\ First(5) <= End(5)
         /\ TlsBase = First(4)
    BY <2>1, TemplateFacts
  <2>13. stored = Address(c) + symbol.value - First(4) + reloc.addend
    <3>1. Target(o, symbol) = Address(c) + symbol.value
      BY <2>5 DEF Target, SymbolAddress
    <3>2. reloc.kind = "tls"
      OBVIOUS
    <3> HIDE DEF reloc, symbol, c, stored
    <3>3. Value(o, reloc, symbol) = Target(o, symbol) - TlsBase + reloc.addend
      BY <3>2 DEF Value
    <3>4. stored = Address(c) + symbol.value - TlsBase + reloc.addend
      BY <2>3, <2>8, <2>10, <2>12, <3>1, <3>3
    <3> QED
      BY <2>12, <3>4
  <2> HIDE DEF reloc, symbol, c, stored
  <2>14. First(4) <= Address(c) /\ Address(c) + SizeOf(c) <= End(5)
    <3>1. CASE k = 4
      BY <2>9, <2>10, <2>12, <3>1
    <3>2. CASE k = 5
      BY <2>9, <2>10, <2>12, <3>2
    <3> QED
      BY <2>11, <3>1, <3>2
  <2>15. stored \in 0..(End(5) - First(4) - 1)
    BY <2>7, <2>8, <2>9, <2>10, <2>12, <2>13, <2>14
  <2> QED
    BY <2>2, <2>15 DEF stored, reloc
<1> QED
  BY <1>1, ImageCorrect, PTL
=============================================================================
