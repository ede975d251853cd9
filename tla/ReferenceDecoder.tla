-------------------------- MODULE ReferenceDecoder --------------------------
(***************************************************************************)
(* decode_at of the reference machine: reads one instruction of code at    *)
(* offset start, or throws.  operand_bytes keeps its default of 8, the     *)
(* value run_function uses.  The opcodes are the machine's own literals.   *)
(*                                                                         *)
(* read_le(code, p, k) either throws or yields the k bytes at p; the tests *)
(* for the end of the code come before each read, as in the source; each   *)
(* stage hands on what an earlier one threw.                               *)
(***************************************************************************)
EXTENDS Disassembler

Throws == [ok |-> FALSE]
Decoded == [ok |-> TRUE, marker |-> 0, reg |-> 0, rm |-> 0, index |-> 4, scale |-> 1,
            disp |-> 0, memory |-> FALSE, vector |-> FALSE, vector_memory |-> FALSE,
            int_to_fp |-> FALSE, fp_to_int |-> FALSE, scalar_fp |-> FALSE,
            scalar_fp_bytes |-> 8, third |-> 0, immediate |-> Imm(0),
            system_register |-> 0, group |-> 0, sub |-> 0, opcode |-> 0, size |-> 0,
            has_orex |-> FALSE, has_vector |-> FALSE, width |-> 0, mod |-> 0, p |-> 0]

MemoryOpcodes == {19, 20, 21, 22, 23, 24, 25, 26, 29}
WindowOps == 27 .. 31
DirectOps == {92, 94} \cup 97 .. 108
RegisterBranches == {109, 110}
SystemRegisterOps == {128, 129}
\* Mutant of NoXopOps: the comparison takes a third register.
NoXopOps_WithoutCompare == {0, 170, 174, 175}

NoXopOps == {0, 170, 171, 174, 175}

ReadMarkerAndControl(code, start) ==
  LET marked == At(code, start) = 253
      from == IF marked THEN start + 2 ELSE start
      prefixed == At(code, from) = 254
      control == IF prefixed THEN At(code, from + 1) ELSE 0
      p == IF prefixed THEN from + 2 ELSE from
  IN IF \/ marked /\ (~Holds(code, start, 2) \/ At(code, start + 1) \notin 1 .. 10)
        \/ prefixed /\ ~Holds(code, from, 2)
        \/ p >= Len(code)
     THEN Throws
     ELSE [Decoded EXCEPT !.marker = IF marked THEN At(code, start + 1) ELSE 0,
             !.p = p + 1, !.opcode = At(code, p), !.has_orex = control >= 128,
             !.has_vector = (control \div 64) % 2 = 1, !.width = (control \div 8) % 8]

(* The extension opcodes the machine knows: the window operations, and the *)
(* scalar floating-point loads and stores with their width.                *)
ReadExtension(code, d) ==
  LET group == At(code, d.p)
      sub == At(code, d.p + 1)
      next == [d EXCEPT !.p = @ + 2, !.group = group, !.sub = sub]
  IN IF ~d.ok THEN d
     ELSE IF d.opcode # 255 THEN d
     ELSE IF ~Holds(code, d.p, 2) THEN Throws
     ELSE IF group = 4 /\ sub \in WindowOps THEN next
     ELSE IF group = 5 /\ sub \in {16, 17} /\ d.width \in 1 .. 5
          THEN [next EXCEPT !.scalar_fp = TRUE, !.scalar_fp_bytes = 2 ^ (d.width - 1)]
          ELSE Throws

IsWindowOp(d) == d.group = 4
HasNoModRM(d) == IsWindowOp(d) \/ d.opcode \in {96, 130} \cup DirectOps

ReadDirect(code, d) ==
  IF d.opcode \notin DirectOps THEN d
  ELSE IF ~Holds(code, d.p, 4) THEN Throws
       ELSE [d EXCEPT !.p = @ + 4, !.immediate = Imm(Signed32(code, d.p))]

VectorAccess(d) == d.has_vector /\ d.opcode \in {161, 162}

(* ModR/M, SIB and OREX. *)
ReadFields(code, d) ==
  LET modrm == At(code, d.p)
      memory == modrm \div 64 # 3
      sib == memory /\ modrm % 8 = 4
      sibByte == At(code, d.p + 1)
      after == d.p + (IF sib THEN 2 ELSE 1)
      orex == IF d.has_orex THEN At(code, after) ELSE 0
  IN IF \/ d.p >= Len(code)
        \/ memory /\ ~(d.opcode \in MemoryOpcodes \/ VectorAccess(d) \/ d.scalar_fp)
        \/ sib /\ ~Holds(code, d.p, 2)
        \/ d.has_orex /\ after >= Len(code)
     THEN Throws
     ELSE [d EXCEPT !.p = after + (IF d.has_orex THEN 1 ELSE 0), !.memory = memory,
             !.reg = ((modrm \div 8) % 8) + ExtraBits(orex, 1),
             !.rm = (IF sib THEN (sibByte % 8) + ExtraBits(orex, 64)
                            ELSE (modrm % 8) + ExtraBits(orex, 4)),
             !.index = (IF sib THEN ((sibByte \div 8) % 8) + ExtraBits(orex, 16) ELSE 4),
             !.scale = (IF sib THEN 2 ^ (sibByte \div 64) ELSE 1),
             !.mod = modrm \div 64]

ReadOperandBytes(code, d) ==
  IF ~d.ok THEN d ELSE
  CASE d.opcode \in SystemRegisterOps ->
         IF d.memory \/ d.reg # 0 \/ ~Holds(code, d.p, 2) THEN Throws
         ELSE [d EXCEPT !.p = @ + 2, !.system_register = Unsigned16(code, d.p)]
    [] d.opcode \in RegisterBranches ->
         IF ~Holds(code, d.p, 4) THEN Throws
         ELSE [d EXCEPT !.p = @ + 4, !.immediate = Imm(Signed32(code, d.p))]
    [] OTHER -> d

(* VectorCtl and, for the operations with a third register, the XOP byte.  *)
ReadVectorControl(code, d) ==
  LET control == At(code, d.p)
      lane == control \div 8
      int_to_fp == d.has_vector /\ d.opcode \in {172, 219}
      fp_to_int == d.has_vector /\ d.opcode \in {173, 220}
      read == [d EXCEPT !.p = @ + 1, !.scalar_fp_bytes = 2 ^ lane,
                        !.int_to_fp = int_to_fp, !.fp_to_int = fp_to_int,
                        !.vector_memory = VectorAccess(d)]
      xop == At(code, d.p + 1)
  IN IF ~d.ok THEN d
     ELSE IF ~d.has_vector THEN d
     ELSE IF d.p >= Len(code) \/ control % 8 # 0 \/ lane > 4 THEN Throws
     ELSE IF int_to_fp \/ fp_to_int \/ VectorAccess(d) THEN read
     ELSE IF d.opcode \in NoXopOps THEN [read EXCEPT !.vector = TRUE]
     ELSE IF ~Holds(code, d.p, 2) \/ ~IsXop(xop) THEN Throws
     ELSE [read EXCEPT !.p = @ + 1, !.vector = TRUE, !.third = xop % 32]

(* Only the move of an immediate has its immediate read here. *)
ReadImmediate(code, d) ==
  IF ~d.ok THEN d
  ELSE IF d.opcode # 1 THEN d
  ELSE IF ~Holds(code, d.p, 8) THEN Throws
       ELSE [d EXCEPT !.p = @ + 8,
                      !.immediate = Wide(Signed32(code, d.p), Signed32(code, d.p + 4))]

ReadOffset(code, d) ==
  IF ~d.ok THEN d ELSE
  CASE d.memory /\ d.mod = 1 ->
         IF ~Holds(code, d.p, 1) THEN Throws
         ELSE [d EXCEPT !.p = @ + 1, !.disp = Signed8(At(code, d.p))]
    [] d.memory /\ d.mod = 2 ->
         IF ~Holds(code, d.p, 4) THEN Throws
         ELSE [d EXCEPT !.p = @ + 4, !.disp = Signed32(code, d.p)]
    [] OTHER -> d

ReadForms(code, d) ==
  ReadOffset(code, ReadImmediate(code,
    ReadVectorControl(code, ReadOperandBytes(code, ReadFields(code, d)))))

ReadRest(code, d) ==
  IF ~d.ok THEN d
  ELSE IF HasNoModRM(d) THEN ReadDirect(code, d) ELSE ReadForms(code, d)

Sized(d, start) == IF d.ok THEN [d EXCEPT !.size = d.p - start] ELSE d

DecodeAt(code, start) ==
  Sized(ReadRest(code, ReadExtension(code, ReadMarkerAndControl(code, start))), start)
=============================================================================
