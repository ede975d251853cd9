------------------------------ MODULE MCLinker ------------------------------
(***************************************************************************)
(* TLC instance of Linker: links of one, two or three objects out of a     *)
(* small library in which names are missing, repeated, local and           *)
(* thread-local, and sections are empty, aligned and dropped.              *)
(***************************************************************************)
EXTENDS Linker

Sec(output, length_, unit) == [output |-> output, size |-> length_, align |-> unit]
Sym(name, global, section, value) ==
  [name |-> name, global |-> global, section |-> section, value |-> value]
Rel(section, place, symbol, kind, addend) ==
  [section |-> section, place |-> place, symbol |-> symbol, kind |-> kind,
   addend |-> addend]
Obj(sections, symbols, relocs) ==
  [sections |-> sections, symbols |-> symbols, relocs |-> relocs,
   class |-> 2, windowed |-> FALSE, pae |-> FALSE]

\* Calls a function and reads a variable of other objects.
MainObject ==
  Obj(<<Sec(".text", 3, 4), Sec(".text", 2, 2), Sec("dropped", 2, 1)>>,
      <<Sym("start", TRUE, 1, 0), Sym("f", TRUE, 0, 0), Sym("v", TRUE, 0, 0),
        Sym("here", FALSE, 2, 1)>>,
      <<Rel(1, 1, 2, "pcrel", -1), Rel(2, 0, 3, "abs32", 1), Rel(2, 1, 4, "pcrel", 0)>>)

\* Defines both, with a table that points to the function and a local of the same
\* name as one of the other object.
LibraryObject ==
  Obj(<<Sec(".text", 1, 1), Sec(".rodata", 2, 4), Sec(".data", 1, 1), Sec(".data", 2, 4),
        Sec(".bss", 3, 2)>>,
      <<Sym("f", TRUE, 1, 0), Sym("v", TRUE, 4, 1), Sym("here", FALSE, 5, 1)>>,
      <<Rel(2, 1, 1, "pointer", 0), Rel(3, 0, 3, "pointer", 0), Rel(4, 0, 1, "relative", 5)>>)

\* A function that keeps its state per thread.
ThreadObject ==
  Obj(<<Sec(".text", 3, 2), Sec(".tdata", 1, 2), Sec(".tbss", 2, 2)>>,
      <<Sym("f", TRUE, 1, 1), Sym("t", TRUE, 2, 0), Sym("z", FALSE, 3, 1)>>,
      <<Rel(1, 0, 2, "tls", 0), Rel(1, 2, 3, "tls", 0)>>)

\* Uses the thread variable of another object.
UserObject ==
  Obj(<<Sec(".text", 1, 1), Sec(".bss", 2, 4)>>,
      <<Sym("g", TRUE, 1, 0), Sym("t", TRUE, 0, 0)>>, <<Rel(1, 0, 2, "tls", 0)>>)

\* Variables without initial values, one of them per thread.
ZeroObject ==
  Obj(<<Sec(".text", 1, 2), Sec(".bss", 1, 1), Sec(".tbss", 1, 4)>>,
      <<Sym("v", TRUE, 2, 0), Sym("w", TRUE, 3, 0)>>, <<Rel(1, 0, 2, "tls", 0)>>)

\* A name in an empty section, and a relocation the linker does not know.
EmptyObject == Obj(<<Sec(".text", 0, 1)>>, <<Sym("end", TRUE, 1, 0)>>, <<>>)
GotObject ==
  Obj(<<Sec(".rodata", 2, 1)>>, <<Sym("v", TRUE, 1, 1)>>, <<Rel(1, 0, 1, "got", 0)>>)

OtherObjects ==
  { [UserObject EXCEPT !.class = 1], [UserObject EXCEPT !.windowed = TRUE] }

MCLibrary ==
  {MainObject, LibraryObject, ThreadObject, UserObject, ZeroObject,
   EmptyObject, GotObject}
    \cup OtherObjects

\* Every choice of data sections of two cells, at one alignment; each section with
\* contents refers to the last one.
DataObject(sizes, unit) ==
  Obj(<<Sec(".rodata", sizes[1], 1), Sec(".data", sizes[2], unit),
        Sec(".tdata", sizes[3], unit), Sec(".tbss", sizes[4], 1), Sec(".bss", sizes[5], unit)>>,
      <<Sym("", FALSE, 5, 1)>>,
      IF sizes[5] = 0 THEN <<>>
      ELSE SelectSeq(<<Rel(1, 1, 1, "pcrel", 0), Rel(2, 0, 1, "pcrel", 1),
                       Rel(3, 1, 1, "pointer", 0)>>,
                     LAMBDA rel : sizes[rel.section] > 0))
StartObject == Obj(<<Sec(".text", 3, 1)>>, <<Sym("start", TRUE, 1, 2)>>, <<>>)
MCData(unit) == {DataObject(sizes, unit) : sizes \in [1..5 -> {0, 2}]}

MCInput ==
  {<<a>> : a \in MCLibrary} \cup {<<a, b>> : a, b \in MCLibrary}
    \cup {<<a, b, c>> : a, b, c \in {MainObject, LibraryObject, ThreadObject, ZeroObject}}
    \cup {<<StartObject, a, b>> : a \in MCData(1), b \in MCData(4)}
MCAlignment == {1, 2, 4}
ASSUME ThreadAssumption == ThreadReferencesInside
=============================================================================
