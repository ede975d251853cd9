----------------------------- MODULE LinkLayout -----------------------------
(***************************************************************************)
(* The first half of tools/link_seabird.py: read_object merges the input   *)
(* sections of each object into six output sections, the checks of         *)
(* merge_elf_flags and link compare the objects, and link lays the output  *)
(* sections of all objects out in one image.                               *)
(*                                                                         *)
(* An image is a row of cells, each as wide as the field of a relocation.  *)
(* An object is what its ELF headers say: its input sections with the      *)
(* output section their name selects, its symbols and its relocations.     *)
(* Section names of an object differ, as those of the assembler do.        *)
(***************************************************************************)
EXTENDS Integers, Sequences

CONSTANTS
  Input,      \* the lists of objects given to the linker
  Alignment,  \* the section alignments that occur
  Page        \* cells in a page

SectionOrder == <<".text", ".rodata", ".data", ".tdata", ".tbss", ".bss">>
Output == {".text", ".rodata", ".data", ".tdata", ".tbss", ".bss"}
Dropped == "dropped"    \* output_section_name of any other section: None

InputSection == [output : Output \cup {Dropped}, size : Nat, align : Alignment]

\* Alignments are powers of two: of any two, one is a multiple of the other.
ASSUME AlignmentAssumption ==
  /\ Alignment \subseteq Nat \ {0}
  /\ 1 \in Alignment
  /\ \A a, b \in Alignment : a <= b => \E m \in 1..b : b = m * a
ASSUME PageAssumption == Page \in Nat \ {0}
ASSUME InputAssumption ==
  \A objects \in Input :
    /\ objects \in Seq([sections : Seq(InputSection), symbols : Seq([name : STRING,
         global : BOOLEAN, section : Nat, value : Nat]), relocs : Seq([section : Nat,
         place : Nat, symbol : Nat, kind : STRING, addend : Int]),
         class : 1..2, windowed : BOOLEAN, pae : BOOLEAN])
    /\ objects # <<>>

\* The relocations read_object keeps are those of kept sections; as an assembler
\* writes them, each names a symbol of its object and has a field to itself.
WellFormed(object_) ==
  /\ \A r \in DOMAIN object_.relocs :
       LET reloc == object_.relocs[r]
       IN  /\ reloc.section \in DOMAIN object_.sections
           /\ object_.sections[reloc.section].output # Dropped
           /\ reloc.place < object_.sections[reloc.section].size
           /\ reloc.symbol \in DOMAIN object_.symbols
  /\ \A r, q \in DOMAIN object_.relocs :
       r # q => \/ object_.relocs[r].section # object_.relocs[q].section
                \/ object_.relocs[r].place # object_.relocs[q].place
ASSUME ObjectAssumption ==
  \A objects \in Input : \A o \in DOMAIN objects : WellFormed(objects[o])

VARIABLES
  files,      \* the objects of this link
  separate,   \* page_separate: an executable is wanted, not a flat image
  stage, object, item,    \* where the loops of the linker are
  size, alignment,        \* length and alignment of the merged sections of an object
  local,      \* index_locations: the place of an input section in its merged section
  length,     \* len(image)
  base,       \* InputSection.base of the merged sections laid out
  boundary    \* boundaries

readVars == <<size, alignment, local>>
placeVars == <<length, base, boundary>>
layoutVars == <<files, separate, stage, object, item, readVars, placeVars>>

Objects == 1..Len(files)
Sections(o) == files[o].sections
Merged == Objects \X Output

\* The input sections that become part of the image.
Contribution == DOMAIN local
MergedOf(c) == <<c[1], Sections(c[1])[c[2]].output>>
SizeOf(c) == Sections(c[1])[c[2]].size
AlignOf(c) == Sections(c[1])[c[2]].align

\* align(value, alignment), for a power of two.
AlignUp(value, unit) == ((value + unit - 1) \div unit) * unit
Extended(f, x, value) == [y \in DOMAIN f \cup {x} |-> IF y = x THEN value ELSE f[y]]

Present(s) == \E o \in Objects : size[o, s] > 0

LayoutInit ==
  /\ files \in Input
  /\ separate \in BOOLEAN
  /\ stage = "read" /\ object = 1 /\ item = 1
  /\ size = [m \in Merged |-> 0]
  /\ alignment = [m \in Merged |-> 1]
  /\ local = <<>>
  /\ length = 0 /\ base = <<>>
  /\ boundary = [s \in Output |-> <<0, 0>>]

-----------------------------------------------------------------------------
\* The alignment a merged section has with one more input section.
MergedAlignment_Last(m, section) == section.align
MergedAlignment(m, section) ==
  IF section.align > alignment[m] THEN section.align ELSE alignment[m]

\* Where an input section begins in its merged section, and where it ends.
LocalBase(m, section) == AlignUp(size[m], section.align)
LocalEnd_NoPadding(m, section) == size[m] + section.size
LocalEnd(m, section) == LocalBase(m, section) + section.size

\* read_object, one section header.
ReadSection ==
  /\ stage = "read" /\ object \in Objects /\ item <= Len(Sections(object))
  /\ item' = item + 1
  /\ LET section == Sections(object)[item]
         m == <<object, section.output>>
     IN  IF section.output = Dropped
         THEN UNCHANGED readVars
         ELSE /\ local' = Extended(local, <<object, item>>, LocalBase(m, section))
              /\ size' = [size EXCEPT ![m] = LocalEnd(m, section)]
              /\ alignment' = [alignment EXCEPT ![m] = MergedAlignment(m, section)]
  /\ UNCHANGED <<files, separate, stage, object, placeVars>>

NextObject ==
  /\ stage = "read" /\ object \in Objects /\ item > Len(Sections(object))
  /\ object' = object + 1 /\ item' = 1
  /\ UNCHANGED <<files, separate, stage, readVars, placeVars>>

\* link and merge_elf_flags compare the objects; an exception ends the link.
MixedClasses == \E o, p \in Objects : files[o].class # files[p].class
MixedWindows == \E o, p \in Objects : files[o].windowed # files[p].windowed

Compare ==
  /\ stage = "read" /\ object \notin Objects
  /\ stage' = CASE MixedClasses -> "mixed classes"
                [] ~MixedClasses /\ MixedWindows -> "mixed windows"
                [] OTHER -> "open"
  /\ item' = 1
  /\ UNCHANGED <<files, separate, object, readVars, placeVars>>

-----------------------------------------------------------------------------
\* first_writable, when there is one.
FirstWritable(s) ==
  /\ s \in {".data", ".tdata", ".tbss", ".bss"} /\ Present(s)
  /\ \A k, n \in DOMAIN SectionOrder :
       (SectionOrder[n] = s /\ k \in 3..(n - 1)) => ~Present(SectionOrder[k])

PageAligned_Named(s) == separate /\ Present(s) /\ s \in {".rodata", ".data"}
PageAligned(s) ==
  /\ separate
  /\ (Present(s) /\ s \in {".rodata", ".data"}) \/ FirstWritable(s)

Start(s) == IF PageAligned(s) THEN AlignUp(length, Page) ELSE length

\* link, the head of the loop over the output sections; item counts them.
OpenSection ==
  /\ stage = "open" /\ item \in DOMAIN SectionOrder
  /\ stage' = "place" /\ object' = 1
  /\ length' = Start(SectionOrder[item])
  /\ boundary' = [boundary EXCEPT ![SectionOrder[item]] = <<length', length'>>]
  /\ UNCHANGED <<files, separate, item, readVars, base>>

\* One object's part of the output section.
PlaceSection ==
  /\ stage = "place" /\ object \in Objects
  /\ object' = object + 1
  /\ LET m == <<object, SectionOrder[item]>>
     IN  IF size[m] = 0
         THEN UNCHANGED <<length, base>>
         ELSE /\ base' = Extended(base, m, AlignUp(length, alignment[m]))
              /\ length' = AlignUp(length, alignment[m]) + size[m]
  /\ UNCHANGED <<files, separate, stage, item, readVars, boundary>>

CloseSection ==
  /\ stage = "place" /\ object \notin Objects
  /\ stage' = "open" /\ item' = item + 1
  /\ boundary' = [boundary EXCEPT ![SectionOrder[item]] = <<@[1], length>>]
  /\ UNCHANGED <<files, separate, object, readVars, length, base>>

LayoutNext ==
  \/ ReadSection \/ NextObject \/ Compare
  \/ OpenSection \/ PlaceSection \/ CloseSection

LayoutSpec == LayoutInit /\ [][LayoutNext]_layoutVars

-----------------------------------------------------------------------------
\* Where an input section lies in the image, once its merged section is placed.
Placed(c) == c \in Contribution /\ MergedOf(c) \in DOMAIN base
Address(c) == base[MergedOf(c)] + local[c]

\* The loops stay where their tables are, and the tables hold what they should.
LayoutTypeOK ==
  /\ separate \in BOOLEAN
  /\ object \in Nat \ {0} /\ item \in Nat \ {0}
  /\ size \in [Merged -> Nat]
  /\ alignment \in [Merged -> Alignment]
  /\ \A c \in DOMAIN local : c[1] \in Objects /\ c[2] \in DOMAIN Sections(c[1])
  /\ DOMAIN base \subseteq Merged
  /\ length \in Nat
  /\ boundary \in [Output -> Nat \X Nat]

\* No two input sections of any objects share a cell of the image, and none
\* reaches past its end (read_object merges, link places).
ContributionsDisjoint ==
  \A c, d \in Contribution :
    Placed(c) /\ Placed(d) =>
      /\ Address(c) + SizeOf(c) <= length
      /\ c # d => \/ Address(c) + SizeOf(c) <= Address(d)
                  \/ Address(d) + SizeOf(d) <= Address(c)

\* Each input section lies at a multiple of its own alignment, through both the
\* alignment in its merged section and that of the merged section.
ContributionsAligned ==
  \A c \in Contribution :
    Placed(c) => \E k \in 0..Address(c) : Address(c) = k * AlignOf(c)
=============================================================================
