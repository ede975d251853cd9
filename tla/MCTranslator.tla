---------------------------- MODULE MCTranslator ----------------------------
(***************************************************************************)
(* TLC instance of Translator: an instruction before, any instruction in   *)
(* any encoding, and one after.                                            *)
(***************************************************************************)
EXTENDS Translator

I(mnemonic, ops) == [mnemonic |-> mnemonic, cc |-> NONE, ops |-> ops]
Jcc(cc, target) == [mnemonic |-> "Jcc", cc |-> cc, ops |-> <<Imm(target)>>]

\* Registers of both halves; RSP, RBP, R12 and R13, which ModR/M and SIB single out.
Registers == {0, 1, 4, 5, 12, 13, 15}
Addresses ==
  {At64(base, NONE, 1, disp) : base \in {3, 4, 5, 12, 13}, disp \in {0, -128}}
    \cup {At64(base, index, scale, disp) :
            base \in {4, 13}, index \in {1, 13}, scale \in {1, 8}, disp \in {0, 127, -129}}
    \cup {At64(NONE, NONE, 1, 4096), At64(NONE, 9, 4, 64), At64(3, 12, 2, 0), AtRip(-7)}
FewAddresses == {At64(13, NONE, 1, 0), At64(4, NONE, 1, -128), At64(5, 13, 8, 127)}

MCMenu ==
  << {I("MOV", <<XReg(8), Wide(1432778632, 287454020)>>),
      I("PUSH", <<XReg(5)>>)},
     {I(m, <<XReg(a), XReg(b)>>) : m \in DOMAIN BinaryOpcode, a \in Registers, b \in {7, 12}}
       \cup {I(m, <<XReg(r), XMem(a)>>) : m \in {"MOV", "CMP"}, r \in {14}, a \in Addresses}
       \cup {I(m, <<XMem(a), XReg(r)>>) : m \in {"MOV", "XOR"}, r \in {14}, a \in Addresses}
       \cup {I(m, <<XMem(a), XReg(6)>>) : m \in DOMAIN BinaryOpcode, a \in FewAddresses}
       \cup {I(m, <<XReg(14), XMem(a)>>) : m \in DOMAIN BinaryOpcode, a \in FewAddresses}
       \cup {I("MOV", <<XMem(a), Imm(-2)>>) : a \in Addresses}
       \cup {I("MOV", <<XReg(r), i>>) : r \in Registers, i \in {Imm(7), Imm(-2), Wide(-1, 1), Wide(-1, 0)}}
       \cup {I("ADD", <<XReg(8), XReg(9)>>)}
       \cup {I(m, <<XReg(r)>>) : m \in {"PUSH", "POP"}, r \in Registers}
       \cup {Jcc(cc, target) : cc \in 0 .. 15, target \in {0, 70000}}
       \cup {I(m, <<Imm(target)>>) : m \in {"JMP", "CALL"}, target \in {0, 20, 70000}}
       \cup {I(m, <<>>) : m \in {"SYSCALL", "NOP", "INT3", "UD2"}},
     {I("RET", <<>>)} >>
=============================================================================
