------------------------------- MODULE Linker -------------------------------
(***************************************************************************)
(* The second half of tools/link_seabird.py, on the layout of LinkLayout:  *)
(* link defines the exported symbols and applies the relocations, and      *)
(* make_executable cuts the image into segments.  stage names an exception *)
(* where one ends the link.                                                *)
(***************************************************************************)
EXTENDS LinkLayout

LOCAL INSTANCE FiniteSetsExt   \* Min, Max

CONSTANTS
  Base,     \* --base, the address of an executable
  Entry,    \* --entry
  Limit,    \* first address the pointers cannot hold
  Reach     \* bound of a displacement of 32 bits

ASSUME LinkAssumption == {Base, Limit, Reach} \subseteq Nat /\ Entry \in STRING

VARIABLES
  definitions,  \* the exported symbols and their places in the image
  field,        \* the cells written by relocations, over the contents of sections
  segments,     \* PT_LOAD headers, each [start, fileEnd, memEnd, flags]
  tls,          \* the PT_TLS headers, one or none
  fileEnd       \* cells of the image that go into the file

outputVars == <<segments, tls, fileEnd>>
linkVars == <<layoutVars, definitions, field, outputVars>>

Symbols(o) == files[o].symbols
Relocs(o) == files[o].relocs
LoadBase == IF separate THEN Base ELSE 0
Nobits == {".tbss", ".bss"}
Tls == {".tdata", ".tbss"}

LinkInit ==
  /\ LayoutInit
  /\ definitions = <<>> /\ field = <<>>
  /\ segments = {} /\ tls = {} /\ fileEnd = 0

Layout ==
  /\ LayoutNext
  /\ UNCHANGED <<definitions, field, outputVars>>

\* An exception: the linker stops and writes nothing.
Raise(what) ==
  /\ stage' = what
  /\ UNCHANGED <<files, separate, object, item, readVars, placeVars,
                 definitions, field, outputVars>>

\* Control of the loops over the symbols and the relocations of all objects.
Goto(where, o, k) ==
  /\ stage' = where /\ object' = o /\ item' = k
  /\ UNCHANGED <<files, separate, readVars, placeVars>>

BeginSymbols ==
  /\ stage = "open" /\ item \notin DOMAIN SectionOrder
  /\ Goto("define", 1, 1)
  /\ UNCHANGED <<definitions, field, outputVars>>

-----------------------------------------------------------------------------
\* index_locations.get(shndx), and the symbol's address in the image.
Located(o, symbol) == <<o, symbol.section>> \in DOMAIN local
SymbolAddress_NoLocalBase(o, symbol) ==
  base[MergedOf(<<o, symbol.section>>)] + symbol.value
SymbolAddress(o, symbol) == Address(<<o, symbol.section>>) + symbol.value

Exported_Local(o, symbol) == symbol.name # "" /\ Located(o, symbol)
Exported(o, symbol) == symbol.name # "" /\ symbol.global /\ Located(o, symbol)

DefineError(o, symbol) ==
  IF ~Exported(o, symbol) THEN "none"
  ELSE IF ~Placed(<<o, symbol.section>>) THEN "empty section"
  ELSE IF symbol.name \in DOMAIN definitions THEN "duplicate symbol" ELSE "none"

\* One symbol of the table.
Define ==
  /\ stage = "define" /\ object \in Objects /\ item \in DOMAIN Symbols(object)
  /\ LET symbol == Symbols(object)[item]
         error == DefineError(object, symbol)
     IN  \/ error # "none" /\ Raise(error)
         \/ /\ error = "none"
            /\ definitions' = IF Exported(object, symbol)
                              THEN Extended(definitions, symbol.name,
                                            SymbolAddress(object, symbol))
                              ELSE definitions
            /\ Goto(stage, object, item + 1)
            /\ UNCHANGED <<field, outputVars>>

NextSymbols ==
  /\ stage = "define" /\ object \in Objects /\ item \notin DOMAIN Symbols(object)
  /\ Goto(stage, object + 1, 1)
  /\ UNCHANGED <<definitions, field, outputVars>>

BeginRelocs ==
  /\ stage = "define" /\ object \notin Objects
  /\ Goto("relocate", 1, 1)
  /\ UNCHANGED <<definitions, field, outputVars>>

-----------------------------------------------------------------------------
\* What a relocation names: a symbol with a place in this object, or the
\* definition with its name in any object.
Resolved(o, symbol) == Located(o, symbol) \/ symbol.name \in DOMAIN definitions
Target_ByName(o, symbol) ==
  IF symbol.name \in DOMAIN definitions THEN definitions[symbol.name]
  ELSE SymbolAddress(o, symbol)
Target(o, symbol) ==
  IF Located(o, symbol) THEN SymbolAddress(o, symbol) ELSE definitions[symbol.name]

Place(o, reloc) == Address(<<o, reloc.section>>) + reloc.place

\* The start of the thread template.
TlsBase == boundary[".tdata"][1]
IsTls(o, symbol) ==
  Located(o, symbol) /\ Sections(o)[symbol.section].output \in Tls

\* ABS and the dynamic kinds of pointer width are "pointer".
Kind == {"relative", "pcrel", "abs32", "pointer", "tls"}

Value(o, reloc, symbol) ==
  CASE reloc.kind = "relative" -> LoadBase + reloc.addend
    [] reloc.kind = "pcrel" -> Target(o, symbol) + reloc.addend - Place(o, reloc)
    [] reloc.kind \in {"abs32", "pointer"} -> LoadBase + Target(o, symbol) + reloc.addend
    [] reloc.kind = "tls" -> Target(o, symbol) - TlsBase + reloc.addend

Fits(kind, value) ==
  CASE kind = "tls" -> TRUE
    [] kind = "pcrel" -> value \in (-Reach)..(Reach - 1)
    [] kind = "abs32" -> value \in 0..(2 * Reach - 1)
    [] OTHER -> value \in 0..(Limit - 1)

RelocationError(o, reloc, symbol) ==
  IF reloc.kind # "relative" /\ ~Resolved(o, symbol) THEN "undefined symbol"
  ELSE IF reloc.kind # "relative" /\ Located(o, symbol)
          /\ ~Placed(<<o, symbol.section>>) THEN "empty section"
  ELSE IF reloc.kind \notin Kind THEN "unsupported relocation"
  ELSE IF reloc.kind = "tls" /\ ~IsTls(o, symbol) THEN "non-TLS symbol"
  ELSE IF ~Fits(reloc.kind, Value(o, reloc, symbol)) THEN "overflow" ELSE "none"

\* One relocation.
Relocate ==
  /\ stage = "relocate" /\ object \in Objects /\ item \in DOMAIN Relocs(object)
  /\ LET reloc == Relocs(object)[item]
         symbol == Symbols(object)[reloc.symbol]
         error == RelocationError(object, reloc, symbol)
     IN  \/ error # "none" /\ Raise(error)
         \/ /\ error = "none"
            /\ field' = Extended(field, Place(object, reloc),
                                 Value(object, reloc, symbol))
            /\ Goto(stage, object, item + 1)
            /\ UNCHANGED <<definitions, outputVars>>

NextRelocs ==
  /\ stage = "relocate" /\ object \in Objects /\ item \notin DOMAIN Relocs(object)
  /\ Goto(stage, object + 1, 1)
  /\ UNCHANGED <<definitions, field, outputVars>>

\* A flat image is written as it is.
WriteBinary ==
  /\ stage = "relocate" /\ object \notin Objects /\ ~separate
  /\ Goto("written", object, item)
  /\ fileEnd' = length
  /\ UNCHANGED <<definitions, field, segments, tls>>

-----------------------------------------------------------------------------
Used(names) == {s \in names : boundary[s][2] > boundary[s][1]}

Writable == Used({".data", ".tdata", ".bss", ".tbss"})
WritableStart == Min({boundary[s][1] : s \in Writable})
FileBacked_ReadOnly == Used({".text", ".rodata"})
FileBacked_Data == Used({".data"})
FileBacked == Used({".data", ".tdata"})
WritableFileEnd ==
  IF FileBacked = {} THEN WritableStart ELSE Max({boundary[s][2] : s \in FileBacked})
WritableMemEnd == Max({boundary[s][2] : s \in Writable})

Segment(start, file, mem, flags) ==
  [start |-> start, fileEnd |-> file, memEnd |-> mem, flags |-> flags]
Groups ==
  {Segment(boundary[s][1], boundary[s][2], boundary[s][2],
           IF s = ".text" THEN "RX" ELSE "R") : s \in Used({".text", ".rodata"})}
  \cup (IF Writable = {} THEN {}
        ELSE {Segment(WritableStart, WritableFileEnd, WritableMemEnd, "RW")})

TlsEnd_File == boundary[".tdata"][2]
TlsEnd == boundary[".tbss"][2]
TlsGroups ==
  IF Used({".tdata"}) = {} THEN {}
  ELSE {Segment(boundary[".tdata"][1], boundary[".tdata"][2], TlsEnd, "R")}

\* make_executable.
MakeExecutable ==
  /\ stage = "relocate" /\ object \notin Objects /\ separate
  /\ IF Entry \notin DOMAIN definitions THEN Raise("undefined entry")
     ELSE IF Base + definitions[Entry] >= Limit \/ Base >= Limit
     THEN Raise("address overflow")
     ELSE /\ segments' = Groups
          /\ tls' = TlsGroups
          /\ fileEnd' = IF Writable # {} /\ WritableMemEnd > WritableFileEnd
                        THEN WritableFileEnd ELSE length
          /\ Goto("written", object, item)
          /\ UNCHANGED <<definitions, field>>

LinkNext ==
  \/ Layout
  \/ BeginSymbols \/ Define \/ NextSymbols
  \/ BeginRelocs \/ Relocate \/ NextRelocs
  \/ WriteBinary \/ MakeExecutable

LinkSpec == LinkInit /\ [][LinkNext]_linkVars

-----------------------------------------------------------------------------
\* Every object that defines a name for others, and the symbol that does.
Definers(name) ==
  {d \in UNION {{o} \X DOMAIN Symbols(o) : o \in Objects} :
     LET symbol == Symbols(d[1])[d[2]]
     IN  name # "" /\ symbol.name = name /\ symbol.global /\ Located(d[1], symbol)}

\* The address ELF gives the symbol a relocation names: its own when the object
\* places it, otherwise that of the one exported definition of its name.
Meaning(o, symbol) ==
  IF Located(o, symbol)
  THEN Address(<<o, symbol.section>>) + symbol.value
  ELSE LET d == CHOOSE d \in Definers(symbol.name) : TRUE
           definition == Symbols(d[1])[d[2]]
       IN  Address(<<d[1], definition.section>>) + definition.value

\* The tables of the linker refer to the image.
LinkTypeOK ==
  /\ LayoutTypeOK
  /\ \A name \in DOMAIN definitions : definitions[name] \in Nat
  /\ \A place \in DOMAIN field : place < length /\ field[place] \in Int
  /\ fileEnd \in 0..length
  /\ \A g \in segments \cup tls : g.start <= g.fileEnd /\ g.fileEnd <= g.memEnd

\* In what is written, each relocated field holds S + A, or S + A - P, or the
\* distance from the thread template, for the symbol ELF means; no relocation of
\* another section or object has been written over it.
RelocationsHold ==
  stage = "written" =>
    \A o \in Objects : \A r \in DOMAIN Relocs(o) :
      LET reloc == Relocs(o)[r]
          symbol == Symbols(o)[reloc.symbol]
          stored == field[Place(o, reloc)]
      IN  CASE reloc.kind = "relative" -> stored = LoadBase + reloc.addend
            [] reloc.kind = "pcrel" ->
                 stored + Place(o, reloc) = Meaning(o, symbol) + reloc.addend
            [] reloc.kind \in {"abs32", "pointer"} ->
                 stored = LoadBase + Meaning(o, symbol) + reloc.addend
            [] reloc.kind = "tls" ->
                 stored + boundary[".tdata"][1] = Meaning(o, symbol) + reloc.addend

\* The linker rejects duplicates and undefined names where there are some, and a
\* written image has exactly one definition for each name it uses.
NamesResolved ==
  /\ stage = "duplicate symbol" =>
       \E o \in Objects : \E k \in DOMAIN Symbols(o) :
         LET others == Definers(Symbols(o)[k].name) \ {<<o, k>>}
         IN  <<o, k>> \in Definers(Symbols(o)[k].name) /\ others # {}
  /\ stage = "undefined symbol" =>
       \E o \in Objects : \E k \in DOMAIN Symbols(o) :
         ~Located(o, Symbols(o)[k]) /\ Definers(Symbols(o)[k].name) = {}
  /\ stage = "written" =>
       \A o \in Objects : \A r \in DOMAIN Relocs(o) :
         LET symbol == Symbols(o)[Relocs(o)[r].symbol]
         IN  \/ Relocs(o)[r].kind = "relative" \/ Located(o, symbol)
             \/ \E d \in Definers(symbol.name) : Definers(symbol.name) = {d}

\* Segments with different permissions never share a page (page_separate).
SegmentsSeparate ==
  \A g, h \in segments :
    g # h => \/ (g.memEnd - 1) \div Page < h.start \div Page
             \/ (h.memEnd - 1) \div Page < g.start \div Page

\* A loader that maps the segments of the file puts each input section, with its
\* permissions, where the linker addressed it: sections with contents come from
\* the file, the others are the zeros behind it.
Permission(s) == CASE s = ".text" -> "RX" [] s = ".rodata" -> "R" [] OTHER -> "RW"
LoadedAsLinked ==
  stage = "written" /\ separate =>
    \A c \in Contribution :
      LET s == MergedOf(c)[2]
          end == Address(c) + SizeOf(c)
      IN  SizeOf(c) > 0 =>
            \E g \in segments :
              /\ g.flags = Permission(s)
              /\ g.start <= Address(c) /\ end <= g.memEnd
              /\ IF s \in Nobits THEN g.fileEnd <= Address(c)
                 ELSE end <= g.fileEnd /\ g.fileEnd <= fileEnd

\* A premise of the next property: a thread-local reference of an object, with its
\* addend, stays in the section of its symbol.
ThreadReferencesInside ==
  \A objects \in Input : \A o \in DOMAIN objects : \A r \in DOMAIN objects[o].relocs :
    LET reloc == objects[o].relocs[r]
        symbol == objects[o].symbols[reloc.symbol]
        sections == objects[o].sections
    IN  reloc.kind = "tls" /\ symbol.section \in DOMAIN sections =>
          symbol.value + reloc.addend \in 0..(sections[symbol.section].size - 1)

\* A thread-local reference points into the template PT_TLS describes, when there
\* is one.
TlsInTemplate ==
  stage = "written" =>
    \A g \in tls, o \in Objects : \A r \in DOMAIN Relocs(o) :
      LET reloc == Relocs(o)[r]
      IN  reloc.kind = "tls" => field[Place(o, reloc)] \in 0..(g.memEnd - g.start - 1)
=============================================================================
