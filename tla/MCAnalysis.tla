----------------------------- MODULE MCAnalysis -----------------------------
EXTENDS Toolchain

Line(op, data, target, dst, src) ==
    [op |-> op, data |-> data, target |-> target, dst |-> dst, src |-> src]
Data(data, dst, src) == Line("OTHER", data, 0, dst, src)
Branch(target) == Line("JCC", "JCC_IMM", target, "R", "S")
Stop == Line("EXIT", "EXIT", 0, "R", "S")

(* Graphs of four conditional jumps and instructions that write, or read   *)
(* and write, one register ...                                             *)
Looping ==
    [n : {5}, functions : {{0}}, static_syscalls : {FALSE},
     text : {t \in [0..4 -> {Data("MOV_IMM", "R", "S"), Data("ALU_IMM", "R", "S"), Stop}
                                \cup {Branch(k) : k \in {0, 1, 4}}] :
                t[4] = Stop /\ t[0].op # "JCC" /\ \A i \in 0..3 : t[i] # Stop}]

(* ... and every kind of instruction in a loop with another.               *)
Kinds ==
    {Data(data, "S", "R") :
        data \in {"ALU_REG", "MOV_IMM", "MOV_REG", "LD_REG", "ST_IMM", "ST_REG"}}
    \cup {Line("CALL", "CALL", 0, "R", "S"), Line("CALLX", "CALLX", 0, "R", "S"),
          Line("JA", "JA", 3, "R", "S"), Line("JCC", "JCC_REG", 0, "R", "S")}
Mixed ==
    {p \in [n : {4}, functions : {{0}, {2}}, static_syscalls : {FALSE},
            text : [0..3 -> Kinds \cup {Stop, Branch(1)}]] :
        p.text[2] \in {Branch(1), p.text[0]} /\ p.text[3] \in {Branch(1), Stop}}

(* Graphs of conditional jumps only.                                       *)
Branchy ==
    [n : {5}, functions : {{0}}, static_syscalls : {FALSE},
     text : {t \in [0..4 -> {Stop} \cup {Branch(k) : k \in 0..3}] : t[4] = Stop}]

(* Calls behind a lddw, relative to it or not.                             *)
Wide ==
    {p \in [n : {4}, functions : {{0, 3}, {0, 2}}, static_syscalls : BOOLEAN,
            text : {[i \in 0..3 |-> CASE i = 0 -> Line("LDDW", "LDDW", 0, "S", "S")
                                      [] i = 1 -> Line("HALF", "none", 0, "S", "S")
                                      [] OTHER -> t[i]] :
                       t \in [2..3 -> {Stop, Data("MOV_REG", "R", "S")}
                                         \cup {Line("CALL", "CALL", k, "R", "S") : k \in 0..3}]}] :
        IsProgram(p)}

-----------------------------------------------------------------------------
(* Texts.                                                                  *)

MCOffSpan == 16
MCImmSpan == 256
MCHash(name) ==
    CASE name = Entrypoint -> 200
      [] name = Named("sys") -> 3
      [] OTHER -> 100
MCLoader == 3 :> [name |-> Named("sys"), value |-> 0]

(* A function, the entrypoint, a block, and what refers to them: all       *)
(* orders of three, before an exit.                                        *)
a_function == [symbol |-> "function_of", pc |-> 1]
a_block == Named("block")
Pieces ==
    {Label(a_function), Label(Entrypoint), Label(a_block),
     Instruction(<<"JA", "">>, <<Reference(a_block)>>),
     Instruction(<<"JEQ", "64">>, <<Register(1), Integer(-1), Reference(a_block)>>),
     Instruction(<<"CALL", "">>, <<Reference(a_function)>>),
     Instruction(<<"CALL", "">>, <<Integer(0)>>),
     Instruction(<<"SYSCALL", "">>, <<Reference(Named("sys"))>>),
     Instruction(<<"LDDW", "">>, <<Register(6), Integer(3 * MCImmSpan + 200)>>)}
Ending == Instruction(<<"EXIT", "">>, <<>>)
Ordered ==
    [version : {"V0", "V3"},
     statements : {Append(s, Ending) : s \in [1..3 -> Pieces]}]

(* Every mnemonic with every list of operands, in every version that       *)
(* decodes differently.                                                    *)
Mnemonics ==
    ((DOMAIN BPF_OP \cup DOMAIN BPF_PQR_OP \cup jump_conditions) \X Widths)
        \cup ({"LDX", "ST", "STX"} \X AccessSizes) \cup ({"LE", "BE"} \X DOMAIN EndianSize)
        \cup ({"LDDW", "JA", "SYSCALL", "CALL", "CALLX", "EXIT"} \X {""})
OperandLists ==
    {<<>>, <<Register(6)>>, <<Integer(0)>>, <<Register(1), Register(7)>>,
     <<Register(1), Integer(5)>>, <<Register(10), Integer(64)>>,
     <<Register(1), Address(10, -8)>>, <<Address(10, -8), Register(1)>>,
     <<Address(10, -8), Integer(-1)>>, <<Register(1), Register(7), Integer(0)>>,
     <<Register(1), Integer(5), Reference(a_block)>>, <<Register(16), Integer(5)>>,
     <<Register(1), Address(2, 8)>>, <<Register(1), Integer(MCImmSpan)>>}
Types(v, mnemonic) == make_instruction_map(v, mnemonic).type
Sensible(v, mnemonic, operands) ==
    /\ Types(v, mnemonic) \in {"none", "Syscall"} => operands = <<Integer(0)>>
    /\ v = "V1" => mnemonic = <<"ADD", "64">>
Swept ==
    {[version |-> v, statements |-> <<Instruction(m, o), Label(a_block), Ending>>] :
        <<v, m, o>> \in {x \in {"V0", "V1", "V2", "V3"} \X Mnemonics \X OperandLists :
                            Sensible(x[1], x[2], x[3])}}

(* Raw slots, two of which may look like a lddw; the fields that a slot    *)
(* does not use are zero.                                                  *)
Filled ==
    {[version |-> v, statements |-> <<Fill(2, i), Label(a_function), Ending>>] :
        v \in {"V0", "V2", "V3"},
        i \in {Insn(LD_DW_IMM, 0, 0, 0, 0), Insn(EXIT, 0, 0, 0, 0), Insn(0, 0, 0, 0, 0)}}
    \cup {[version |-> v, statements |-> <<Fill(2, call_reg(v, r).insn), Label(a_function), Ending>>] :
        v \in {"V0", "V2", "V3"}, r \in {9, 10}}

(* Code nothing leads to, behind a function that may have the name it is   *)
(* given, or that calls the entrypoint by its number; and a directive that *)
(* the assembler does not know.                                            *)
CallOf(operand) == Instruction(<<"CALL", "">>, <<operand>>)
Unreached ==
    {[version |-> v, statements |->
        <<CallOf(Reference(FunctionName(k))), Ending, Label(FunctionName(k)), last, Ending>>] :
            v \in {"V0", "V3"}, k \in 1..4, last \in {Ending, CallOf(Integer(-3)), CallOf(Integer(0))}}
    \cup {[version |-> v, statements |-> <<Ending, Label(a_function), OtherDirective, Ending>>] :
            v \in {"V0", "V3"}}

MCTexts == Ordered \cup Swept \cup Filled \cup Unreached

(* What the builder can put before an exit.                                *)
Built ==
    {<<Insn(Move(op, BPF_K, arch), 1, 0, 0, IF op = "NEG" THEN 0 ELSE 5)>> :
        op \in OpBits, arch \in {BPF_ALU32_LOAD, BPF_ALU64_STORE}}
    \cup {<<Insn(Move(op, BPF_X, arch), 1, 2, 0, 0)>> :
        op \in OpBits \ {"NEG"}, arch \in {BPF_ALU32_LOAD, BPF_ALU64_STORE}}
    \cup {<<Insn(SwapBytes(e), 1, 0, 0, 16)>> : e \in {LE, BE}}
    \cup {<<Insn(Load(s, "Mem", BPF_LDX), 1, 2, 4, 0)>> : s \in AccessSizes}
    \cup {<<Insn(Load("DW", "Imm", BPF_LD), 1, 0, 0, 5), Insn(Load("W", "Imm", BPF_LD), 0, 0, 0, 1)>>}
    \cup {<<Insn(Store(s, BPF_ST), 1, 0, 4, 5)>> : s \in AccessSizes}
    \cup {<<Insn(Store(s, BPF_STX), 1, 2, 4, 0)>> : s \in AccessSizes}
    \cup {<<Insn(Jump(c, BPF_X), 1, 2, 0, 0)>> : c \in jump_conditions}
    \cup {<<Insn(Jump(c, BPF_K), 1, 0, 0, 5)>> : c \in jump_conditions}
    \cup {<<Insn(Jump("JA", BPF_K), 0, 0, 0, 0)>>, <<Insn(FunctionCall, 0, 0, 0, 3)>>}
MCCodes == [version : {"V0"}, slots : {Append(s, Insn(Exit, 0, 0, 0, 0)) : s \in Built}]

MCPrograms == Looping \cup Mixed \cup Branchy \cup Wide

=============================================================================
