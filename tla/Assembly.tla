------------------------------ MODULE Assembly ------------------------------
(***************************************************************************)
(* Three ways to write an instruction down: the assembler's (assembler.rs), *)
(* the disassembler's (disassembler.rs) and the builder's (insn_builder.rs). *)
(* Text is what asm_parser.rs makes of it: statements with names, numbers  *)
(* and registers.  A mnemonic is a name and a suffix, the name of a label  *)
(* is a prefix and the pc that may be written behind it.                   *)
(***************************************************************************)
EXTENDS Ebpf, FunctionRegistry, Sequences

CONSTANTS
    OffSpan,        \* number of values of the offset field (2^16 in the code)
    ImmSpan,        \* number of values of the immediate field (2^32)
    Hash(_)         \* hash_symbol_name, given the name of a label

ASSUME SpanAssumption ==
    /\ OffSpan \in Nat \ {0} /\ OffSpan % 2 = 0
    /\ ImmSpan \in Nat \ {0} /\ ImmSpan % 2 = 0

Insn(opc, dst, src, off, imm) ==
    [opc |-> opc, dst |-> dst, src |-> src, off |-> off, imm |-> imm]

AsUnsigned(x) == x % ImmSpan                \* as u32
AsSigned(x) ==                              \* as i32
    IF AsUnsigned(x) < ImmSpan \div 2 THEN AsUnsigned(x) ELSE AsUnsigned(x) - ImmSpan
AsUsize(x) == x % (ImmSpan * ImmSpan)

-----------------------------------------------------------------------------
(* Statements and operands.                                                *)

FunctionName(pc) == [symbol |-> "function_", pc |-> pc]
BlockName(pc) == [symbol |-> "lbb_", pc |-> pc]
StartsWithFunction(name) == name.symbol \in {"function_", "function_of"}

Operand(kind, value, off, name) == [kind |-> kind, value |-> value, off |-> off, name |-> name]
Register(n) == Operand("Register", n, 0, NoName)
Integer(n) == Operand("Integer", n, 0, NoName)
Address(base, off) == Operand("Memory", base, off, NoName)
Reference(name) == Operand("Label", 0, 0, name)

Statement(kind, name, mnemonic, operands, fill) ==
    [kind |-> kind, name |-> name, mnemonic |-> mnemonic, operands |-> operands, fill |-> fill]
NoFill == [repeat |-> 0, insn |-> Insn(0, 0, 0, 0, 0)]
Label(name) == Statement("label", name, <<"", "">>, <<>>, NoFill)
Instruction(mnemonic, operands) == Statement("insn", NoName, mnemonic, operands, NoFill)
Fill(repeat, insn) ==
    Statement("fill", NoName, <<"", "">>, <<>>, [repeat |-> repeat, insn |-> insn])
OtherDirective == Statement("directive", NoName, <<"", "">>, <<>>, NoFill)

-----------------------------------------------------------------------------
(* make_instruction_map: the type and the opcode of a mnemonic.            *)

alu_binary_ops == DOMAIN BPF_OP \ {"NEG", "END"}
jump_conditions == DOMAIN BPF_JUMP \ {"JA", "CALL", "EXIT"}
Widths == {"", "32", "64"}          \* no suffix means 64

Entry(type, opc) == [type |-> type, opc |-> opc]
NoEntry == Entry("none", 0)

make_instruction_map(v, mnemonic) ==
    LET name == mnemonic[1]
        suffix == mnemonic[2]
    IN  CASE mnemonic = <<"LDDW", "">> -> Entry("LoadDwImm", LD_DW_IMM)
          [] mnemonic = <<"JA", "">> -> Entry("JumpUnconditional", JA)
          [] mnemonic = <<"SYSCALL", "">> -> Entry("Syscall", CALL_IMM)
          [] mnemonic = <<"CALL", "">> -> Entry("CallImm", CALL_IMM)
          [] mnemonic = <<"CALLX", "">> -> Entry("CallReg", CALL_REG)
          [] mnemonic = <<"EXIT", "">> -> Entry("NoOperand", EXIT)
          [] name = "NEG" /\ suffix \in Widths ->
                Entry("AluUnary", IF suffix = "32" THEN NEG32 ELSE NEG64)
          [] name \in alu_binary_ops /\ suffix \in Widths ->
                Entry("AluBinary", BPF_OP[name] +
                          (IF suffix = "32" THEN BPF_ALU32_LOAD ELSE BPF_ALU64_STORE))
          [] name \in DOMAIN BPF_PQR_OP /\ suffix \in {"", "64"} ->
                Entry("AluBinary", BPF_PQR + BPF_PQR_64 + BPF_PQR_OP[name])
          [] name \in DOMAIN BPF_PQR_OP \ {"UHMUL", "SHMUL"} /\ suffix = "32" ->
                Entry("AluBinary", BPF_PQR + BPF_PQR_OP[name])
          [] name = "LDX" /\ suffix \in AccessSizes -> Entry("LoadReg", LoadOf(v, suffix))
          [] name = "ST" /\ suffix \in AccessSizes -> Entry("StoreImm", StoreImmOf(v, suffix))
          [] name = "STX" /\ suffix \in AccessSizes -> Entry("StoreReg", StoreRegOf(v, suffix))
          [] name \in jump_conditions /\ suffix \in Widths ->
                Entry("JumpConditional", BPF_JUMP[name] +
                          (IF suffix = "32" THEN BPF_JMP32 ELSE BPF_JMP64))
          [] name \in {"LE", "BE"} /\ suffix \in {"16", "32", "64"} ->
                Entry("Endian", IF name = "LE" THEN LE ELSE BE)
          [] OTHER -> NoEntry

EndianSize == ("16" :> 16) @@ ("32" :> 32) @@ ("64" :> 64)

-----------------------------------------------------------------------------
(* assemble, for one instruction: its first slot or an error.              *)

Emitted(error, insn) == [error |-> error, insn |-> insn]
Refused(error) == Emitted(error, Insn(0, 0, 0, 0, 0))

make_insn(opc, dst, src, off, imm) ==
    CASE dst \notin 0..15 -> Refused("Invalid destination register")
      [] dst \in 0..15 /\ src \notin 0..15 -> Refused("Invalid source register")
      [] dst \in 0..15 /\ src \in 0..15 /\ off \notin -(OffSpan \div 2)..(OffSpan \div 2)-1 ->
            Refused("Invalid offset")
      [] OTHER -> IF imm \in -(ImmSpan \div 2)..(ImmSpan \div 2)-1
                  THEN Emitted("none", Insn(opc, dst, src, off, imm))
                  ELSE Refused("Invalid immediate")

Offset(insn_ptr, labels, target) ==
    IF target.kind = "Integer" THEN target.value ELSE labels[target.name] - insn_ptr - 1

(* A call holds the pc of its target, or the way to it.                    *)
call_imm(v, insn_ptr, labels, target) ==
    LET way == Offset(insn_ptr, labels, target)
    IN  IF StaticSyscalls(v) THEN make_insn(CALL_IMM, 0, 1, 0, way)
        ELSE make_insn(CALL_IMM, 0, 0, 0, way + insn_ptr + 1)

call_reg(v, r) ==
    IF CallxUsesSrcReg(v) THEN make_insn(CALL_REG, 0, r, 0, 0)
    ELSE IF CallxUsesDstReg(v) THEN make_insn(CALL_REG, r, 0, 0, 0)
    ELSE make_insn(CALL_REG, 0, 0, 0, r)

(* Where the frame pointer is not bumped by hand, adding to it is dropped. *)
alu_imm(v, opc, dst, imm) ==
    IF dst = 10 /\ opc = BPF_ALU64_STORE + BPF_OP["ADD"] /\ ~ManualStackFrameBump(v)
    THEN make_insn(BPF_ALU64_STORE + BPF_OP["OR"], 0, 0, 0, 0)
    ELSE make_insn(opc, dst, 0, 0, imm)

(* The operand a jump or a call ends with is a number or a label.          *)
Shape(type, operands) ==
    <<type>> \o [i \in DOMAIN operands |->
        IF /\ i = Len(operands) /\ operands[i].kind \in {"Integer", "Label"}
           /\ type \in {"JumpUnconditional", "JumpConditional", "CallImm"}
        THEN "Target" ELSE operands[i].kind]

assemble_instruction(v, insn_ptr, labels, statement) ==
    LET entry == make_instruction_map(v, statement.mnemonic)
        opc == entry.opc
        operands == statement.operands
        value == [i \in DOMAIN operands |-> operands[i].value]
        shape == Shape(entry.type, operands)
        target == operands[Len(operands)]
        offset == Offset(insn_ptr, labels, target)
        reached(result) == IF target.kind = "Integer" \/ target.name \in DOMAIN labels
                           THEN result ELSE Refused("Label not found")
    IN  CASE entry = NoEntry -> Refused("Invalid instruction")
          [] shape = <<"AluBinary", "Register", "Register">> ->
                make_insn(opc + BPF_X, value[1], value[2], 0, 0)
          [] shape = <<"AluBinary", "Register", "Integer">> ->
                alu_imm(v, opc, value[1], value[2])
          [] shape = <<"AluUnary", "Register">> -> make_insn(opc, value[1], 0, 0, 0)
          [] shape = <<"LoadReg", "Register", "Memory">> ->
                make_insn(opc, value[1], value[2], operands[2].off, 0)
          [] shape = <<"StoreReg", "Memory", "Register">> ->
                make_insn(opc, value[1], value[2], operands[1].off, 0)
          [] shape = <<"StoreImm", "Memory", "Integer">> ->
                make_insn(opc, value[1], 0, operands[1].off, value[2])
          [] shape = <<"NoOperand">> -> make_insn(opc, 0, 0, 0, 0)
          [] shape = <<"JumpUnconditional", "Target">> ->
                reached(make_insn(opc, 0, 0, offset, 0))
          [] shape = <<"JumpConditional", "Register", "Register", "Target">> ->
                reached(make_insn(opc + BPF_X, value[1], value[2], offset, 0))
          [] shape = <<"JumpConditional", "Register", "Integer", "Target">> ->
                reached(make_insn(opc, value[1], 0, offset, value[2]))
          [] shape = <<"CallImm", "Target">> ->
                reached(call_imm(v, insn_ptr, labels, target))
          [] shape = <<"Syscall", "Label">> ->
                make_insn(opc, 0, 0, 0, AsSigned(Hash(target.name)))
          [] shape = <<"Syscall", "Integer">> -> make_insn(opc, 0, 0, 0, value[1])
          [] shape = <<"CallReg", "Register">> -> call_reg(v, value[1])
          [] shape = <<"Endian", "Register">> ->
                make_insn(opc, value[1], 0, 0, EndianSize[statement.mnemonic[2]])
          [] shape = <<"LoadDwImm", "Register", "Integer">> ->
                make_insn(opc, value[1], 0, 0, AsSigned(value[2]))
          [] OTHER -> Refused("Unexpected operands")

(* The slots of an instruction whose first slot is first.                  *)
Slots(statement, first) ==
    IF statement.mnemonic = <<"LDDW", "">>
    THEN <<first, Insn(0, 0, 0, 0, statement.operands[2].value \div ImmSpan)>>
    ELSE <<first>>

-----------------------------------------------------------------------------
(* disassemble_instruction.  The operands of an instruction, by the way    *)
(* they are printed; labels are those of the basic blocks, by their pc.    *)

resolve_label(labels, pc) ==
    Reference(IF pc \in DOMAIN labels THEN labels[pc] ELSE Named("[invalid]"))

alu_str(i) == <<Register(i.dst), IF TakesRegister(i.opc) THEN Register(i.src) ELSE Integer(i.imm)>>
ld_reg_str(i) == <<Register(i.dst), Address(i.src, i.off)>>
st_reg_str(i) == <<Address(i.dst, i.off), Register(i.src)>>
ld_st_imm_str(i) == <<Address(i.dst, i.off), Integer(i.imm)>>
jmp_str(i, at, labels) == Append(alu_str(i), resolve_label(labels, at + i.off + 1))
byteswap_str(name, i) ==
    IF i.imm \in {16, 32, 64} THEN <<name, CHOOSE s \in DOMAIN EndianSize : EndianSize[s] = i.imm>>
    ELSE <<name, "?">>

(* The name of the operation in an opcode, if the version has an arm for   *)
(* it: V2 gives the opcodes of products and quotients another meaning.     *)
NameIn(table, opc) == {n \in DOMAIN table : table[n] = Operation(opc)}
AluName(v, opc) ==
    NameIn(BPF_OP, opc) \cap
        (alu_binary_ops \ ({"HOR"} \cup IF EnablePqr(v) THEN {"MUL", "DIV", "MOD"} ELSE {}))
PqrName(opc) ==
    {n \in DOMAIN BPF_PQR_OP : BPF_PQR_OP[n] = Operation(opc) - BPF_PQR_64 * (Operation(opc) \div 16 % 2)}
        \ (IF Bit(opc, 4) THEN {} ELSE {"UHMUL", "SHMUL"})
JumpName(opc) == NameIn(BPF_JUMP, opc) \cap jump_conditions
The(set) == CHOOSE x \in set : TRUE

(* The key of a call, from the number the caller gives the instruction.    *)
calculate_call_imm_target_pc(v, pc, imm) ==
    IF StaticSyscalls(v) THEN AsUnsigned(pc + imm + 1) ELSE AsUnsigned(imm)

call_imm_str(v, i, pc, registry, loader) ==
    LET function == LookupByKey(registry, calculate_call_imm_target_pc(v, pc, i.imm))
        syscall == (function = {} /\ ~StaticSyscalls(v)) \/ i.src = 0
        shown == IF syscall THEN LookupByKey(loader, AsUnsigned(i.imm)) ELSE function
    IN  Instruction(<<IF syscall THEN "SYSCALL" ELSE "CALL", "">>,
                    <<IF shown = {} THEN Integer(i.imm) ELSE Reference(The(shown).name)>>)

call_reg_str(v, i) ==
    <<Register(IF CallxUsesSrcReg(v) THEN i.src ELSE IF CallxUsesDstReg(v) THEN i.dst ELSE i.imm)>>

(* at is the slot of instruction i, pc the number the caller gives it.     *)
disassemble_instruction(v, i, at, pc, labels, registry, loader) ==
    LET opc == i.opc
        alu == Class(opc) \in {BPF_ALU32_LOAD, BPF_ALU64_STORE}
        width == IF Class(opc) = BPF_ALU32_LOAD THEN "32" ELSE "64"
    IN  CASE opc = LD_DW_IMM -> Instruction(<<"LDDW", "">>, <<Register(i.dst), Integer(i.imm)>>)
          [] opc \in Loads(v) -> Instruction(<<"LDX", SizeOfLoad(v, opc)>>, ld_reg_str(i))
          [] opc \in StoresImm(v) -> Instruction(<<"ST", SizeOfStoreImm(v, opc)>>, ld_st_imm_str(i))
          [] opc \in StoresReg(v) -> Instruction(<<"STX", SizeOfStoreReg(v, opc)>>, st_reg_str(i))
          [] alu /\ AluName(v, opc) # {} -> Instruction(<<The(AluName(v, opc)), width>>, alu_str(i))
          [] opc \in {NEG32, NEG64} /\ ~DisableNeg(v) ->
                Instruction(<<"NEG", width>>, <<Register(i.dst)>>)
          [] opc = LE -> Instruction(byteswap_str("LE", i), <<Register(i.dst)>>)
          [] opc = BE -> Instruction(byteswap_str("BE", i), <<Register(i.dst)>>)
          [] opc = HOR64_IMM -> Instruction(<<"HOR", "64">>, alu_str(i))
          [] Class(opc) = BPF_PQR /\ EnablePqr(v) /\ PqrName(opc) # {} ->
                Instruction(<<The(PqrName(opc)), IF Bit(opc, 4) THEN "64" ELSE "32">>, alu_str(i))
          [] Class(opc) = BPF_JMP32 /\ EnableJmp32(v) /\ JumpName(opc) # {} ->
                Instruction(<<The(JumpName(opc)), "32">>, jmp_str(i, at, labels))
          [] opc = JA -> Instruction(<<"JA", "">>, <<resolve_label(labels, at + i.off + 1)>>)
          [] Class(opc) = BPF_JMP64 /\ JumpName(opc) # {} ->
                Instruction(<<The(JumpName(opc)), "">>, jmp_str(i, at, labels))
          [] opc = CALL_IMM -> call_imm_str(v, i, pc, registry, loader)
          [] opc = CALL_REG -> Instruction(<<"CALLX", "">>, call_reg_str(v, i))
          [] opc = EXIT -> Instruction(<<"EXIT", "">>, <<>>)
          [] OTHER -> Instruction(<<"unknown", "">>, <<>>)

-----------------------------------------------------------------------------
(* The builder: the opcode of what a method of BpfCode creates.            *)

OpBits == DOMAIN BPF_OP \ {"END", "HOR"}
Addressing == [Imm |-> 0, Abs |-> 32, Ind |-> 64, Mem |-> BPF_MEM]

Move(op, source, arch) == BPF_OP[op] + source + arch
SwapBytes(endian) == endian
Load(size, addressing, class) == Addressing[addressing] + BPF_SIZE[size] + class
Store(size, class) == BPF_MEM + BPF_SIZE[size] + class
Jump(cond, source) == BPF_JUMP[cond] + source + BPF_JMP64
FunctionCall == BPF_JUMP["CALL"] + BPF_JMP64
Exit == BPF_JUMP["EXIT"] + BPF_JMP64

=============================================================================
