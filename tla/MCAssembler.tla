----------------------------- MODULE MCAssembler -----------------------------
(***************************************************************************)
(* TLC instance of Assembler: five-line sources whose second line is any   *)
(* instruction of the table in its addressing modes and register halves,   *)
(* between a label, a directive or a branch and a use of a label.          *)
(***************************************************************************)
EXTENDS Assembler

Inst(mark, name, ops) == [kind |-> "instruction", mark |-> mark, name |-> name, ops |-> ops]
Line(kind, name) == [kind |-> kind, name |-> name]

Term(reg, scale) == [reg |-> reg, scale |-> scale, negative |-> FALSE]
Const(negative, value) == [value |-> value, negative |-> negative]
Address(base, terms) == <<"mem", base, terms>>

\* No index, an index in either register half, each size of displacement, the two
\* bases ModR/M cannot hold (4 and 5 modulo 8), and text the grammar reads its own way.
Addresses ==
  {Address(2, <<>>), Address(13, <<>>), Address(12, <<Const(FALSE, 8)>>),
   Address(21, <<Const(TRUE, 300)>>), Address(1, <<Term(3, 4), Const(FALSE, 128)>>),
   Address(20, <<Term(25, 8)>>), Address(7, <<Term(6, NoScale)>>),
   Address(5, <<Term(9, 2), Const(TRUE, 128)>>)}
OddAddresses ==
  {Address(6, <<Const(TRUE, 8), Const(FALSE, 4)>>), Address(0, <<Term(4, 8)>>),
   Address(1, <<Const(FALSE, 8), Term(2, 1)>>), Address(1, <<Term(2, 3)>>),
   Address(3, <<Term(4, 2), Term(12, 1)>>),
   Address(3, <<Term(4, 2), Term(12, NoScale)>>)}

R == {<<GPR(3), GPR(1)>>, <<GPR(21), GPR(13)>>}
One(s) == {<<op>> : op \in s}
Then(rows, s) == {Append(row, op) : row \in rows, op \in s}
Vectors == {<<Vec(3), Vec(17)>>}
Small == {Imm(200)}
Regs == {GPR(6), GPR(30)}

\* The operands of a source statement, by form.
Operands(name) ==
  LET class == ClassOf(name)
      form == FormOf(name)
  IN CASE form \in {"NoOperand"} -> {<<>>}
       [] form \in {"CopyRR", "ALURR", "CompareRR", "UnaryRR"} -> R
       [] class = "UnaryInPlace" -> One(Regs)
       [] form \in {"RI64", "ALURI", "CompareRI"} ->
            Then(One(Regs), {Imm(-2), Wide(7, 1), Label("ext")})
       [] form = "TernaryRI" -> Then(R, {Imm(132), Imm(-1)})
       [] class = "VShiftImm" -> Then(Vectors, Small)
       [] class = "AVXRegImm" -> Then(Vectors, Small)
       [] form = "TernaryByte" -> Then(R, Small \cup {Imm(256)})
       [] class \in {"TernaryRR", "StringCopy", "StringFill", "DSPTernary", "SysXTernary"} ->
            Then(R, {GPR(31)})
       [] class \in {"DSPQuaternary", "DSPPairOut"} -> Then(Then(R, {GPR(9)}), {GPR(31)})
       [] class = "DSPUnary" -> R
       [] class = "DSPDot" -> {<<GPR(9), Vec(2), Vec(30)>>}
       [] class = "DSPSumDot" -> {<<GPR(9), Vec(30)>>}
       [] class = "PairLoad" ->
            {<<GPR(3), GPR(21), Address(13, <<>>)>>, <<GPR(3), GPR(2), Address(1, <<Const(FALSE, 8)>>)>>}
       [] class = "PairStore" -> {<<a, GPR(3), GPR(21)>> : a \in Addresses}
       [] class = "AtomicCAS" -> {<<GPR(3), GPR(21), a>> : a \in Addresses}
       [] class \in {"AtomicExchange128", "VectorLoad", "FPXLoad"} ->
            {<<Vec(19), a>> : a \in Addresses}
       [] class \in {"VectorStore", "FPXStore"} -> {<<a, Vec(1)>> : a \in Addresses}
       [] class = "AVXGather" -> {<<Vec(19), a, Imm(15)>> : a \in Addresses}
       [] class = "AVXScatter" -> {<<a, Vec(19), Imm(15)>> : a \in Addresses}
       [] class \in {"MemoryOnly", "SysXMemory"} -> One(Addresses)
       [] form = "StoreQ" -> {<<a, r>> : a \in Addresses, r \in {GPR(7), GPR(22)}}
       [] form \in {"LoadQ", "AddressCalc"} ->
            {<<r, a>> : a \in Addresses, r \in {GPR(7), GPR(22)}}
       [] class = "AVXBinaryImm" -> Then(Then(Vectors, {Vec(30)}), Small)
       [] class = "FPXFused" -> Then(Then(Vectors, {Vec(30)}), {Vec(9)})
       [] form \in {"FPBinary", "VBinary"} -> Then(Vectors, {Vec(30), Vec(5)})
       [] form = "CopyVV" -> Vectors
       [] form = "IntToFP" -> {<<Vec(3), GPR(17)>>}
       [] form = "FPToInt" -> {<<GPR(17), Vec(3)>>}
       [] form = "BranchRel32" -> One({Label("top"), Label("end"), Imm(-6)})
       [] form = "RegCondBranch" -> Then(One(Regs), {Label("top"), Label("end"), Imm(70000)})
       [] form \in {"IndirectCall", "StackReg", "ReadReg"} -> One(Regs \cup {GPR(17)})
       [] form = "TrapImm" -> One({Imm(255), Imm(256)})
       [] form = "FrameImm" -> One({Imm(48), Wide(0, 1), Imm(-1)})
       [] class \in {"WriteControl", "SysXWriteImm"} -> {<<Imm(40000), GPR(22)>>}
       [] form = "ControlReg" -> {<<GPR(22), Imm(40000)>>, <<GPR(2), Imm(70000)>>}

Everything == UNION {{Inst("", name, ops) : ops \in Operands(name)} : name \in DOMAIN Records}

\* Every marker over instructions it suits and does not suit, and an unknown one.
Marked ==
  {Inst(mark, s.name, s.ops) :
     mark \in (DOMAIN Marker \cup {"fast"}) \ {"none"},
     s \in {Inst("", "ADDrr", <<GPR(3), GPR(21)>>), Inst("", "RET", <<>>),
            Inst("", "LDQrr", <<GPR(3), Address(13, <<Const(FALSE, 8)>>)>>),
            Inst("", "STQrr", <<Address(1, <<>>), GPR(3)>>),
            Inst("", "JE", <<Label("end")>>), Inst("", "JZR", <<GPR(9), Label("top")>>),
            Inst("", "CALL", <<Label("ext")>>), Inst("", "MOVI64", <<GPR(9), Imm(5)>>),
            Inst("", "FMADD64", <<Vec(3), Vec(4), Vec(5), Vec(17)>>)}}
Odd == {Inst("", "LDQrr", <<GPR(3), a>>) : a \in OddAddresses}

MCMenu ==
  << {Line("label", "top"), Line(".cpu", "axium-m-v1"), Line(".arch", "tritium"),
      Inst("likely", "JE", <<Label("end")>>)},
     Everything \cup Marked \cup Odd \cup {Line(".mode", "DRAGONET")},
     {Inst("leaf", "CALL", <<Label("ext")>>), Inst("", "JZR", <<GPR(9), Label("top")>>)},
     {Line("label", "end")},
     {Inst("", "RET", <<>>), Inst("", "JMP", <<Label("top")>>)} >>

MCTargets ==
  {[is64 |-> TRUE, features |-> {}], [is64 |-> TRUE, features |-> {"register-windows"}],
   [is64 |-> FALSE, features |-> {}]}
MCGlobals == {"ext"}
=============================================================================
