----------------------------- MODULE Toolchain -----------------------------
(***************************************************************************)
(* From text to a program and back: assemble (assembler.rs) in two passes  *)
(* over the statements, Executable::new_from_text_bytes (elf.rs), Analysis *)
(* (static_analysis.rs, modules ControlFlow and DataFlow), its disassemble *)
(* with disassembler.rs, and assemble again on what was printed.  A        *)
(* program may also come from the builder (insn_builder.rs).               *)
(***************************************************************************)
EXTENDS DataFlow, Assembly

CONSTANTS
    Texts,      \* records of a version and the statements to assemble
    Codes,      \* records of a version and the slots the builder made
    Loader      \* the syscalls, by their key

VARIABLES
    version, statements, cursor, insn_ptr,
    labels, function_registry, instructions, entry_pc,
    listing, last_basic_block,      \* what has been printed
    original                        \* the program that was printed, if any

assembler == <<statements, cursor, insn_ptr, labels, function_registry, instructions, entry_pc>>
printer == <<listing, last_basic_block>>
analysis == <<control, flow>>
tool_vars == <<vars, flow, version, assembler, printer, original>>

Nothing == [instructions |-> <<>>, entry_pc |-> 0, ambiguous |-> TRUE]
NoProgram ==
    [n |-> 0, functions |-> {}, static_syscalls |-> FALSE, text |-> <<>>]

(* Where the assembler begins.                                             *)
Unlabelled == Entrypoint :> 0

ToolInit ==
    /\ NotSplit /\ NoFlow
    /\ labels = Unlabelled /\ function_registry = NoFunctions
    /\ cursor = 1 /\ insn_ptr = 0 /\ entry_pc = 0
    /\ listing = <<>> /\ last_basic_block = MAX /\ original = Nothing
    /\ \/ \E t \in Texts : /\ version = t.version /\ statements = t.statements
                           /\ instructions = <<>> /\ program = NoProgram /\ phase = "labels"
       \/ \E c \in Codes : /\ version = c.version /\ instructions = c.slots
                           /\ statements = <<>> /\ program = NoProgram /\ phase = "load"
       \/ /\ program \in Programs /\ phase = "split"
          /\ version = "V0" /\ statements = <<>> /\ instructions = <<>>

-----------------------------------------------------------------------------
(* The first pass: labels and the functions among them.                    *)

Current == statements[cursor]
Directives == {"fill", "directive"}        \* those that are not fill count for nothing
SlotsOf(statement) ==
    CASE statement.kind \in Directives -> statement.fill.repeat
      [] statement.kind = "insn" -> IF statement.mnemonic = <<"LDDW", "">> THEN 2 ELSE 1

DefineLabel ==
    /\ phase = "labels" /\ cursor <= Len(statements) /\ Current.kind = "label"
    /\ LET name == Current.name
           function == StartsWithFunction(name) \/ name = Entrypoint
           registered ==
               IF function THEN RegisterFunction(function_registry, AsUnsigned(insn_ptr), name, insn_ptr)
               ELSE Registered(function_registry, "none", 0)
       IN  /\ function_registry' = registered.map
           /\ phase' = IF registered.error = "none" THEN phase ELSE "failed"
           /\ labels' = (name :> insn_ptr) @@ labels
    /\ cursor' = cursor + 1
    /\ UNCHANGED <<analysis, version, statements, insn_ptr, instructions, entry_pc, printer, original>>

CountSlotsOnce ==       \* mutant: a lddw counts once
    /\ phase = "labels" /\ cursor <= Len(statements) /\ Current.kind # "label"
    /\ insn_ptr' = insn_ptr + (IF Current.kind \in Directives THEN Current.fill.repeat ELSE 1)
    /\ cursor' = cursor + 1
    /\ UNCHANGED <<analysis, phase, version, statements, labels, function_registry, instructions,
                   entry_pc, printer, original>>

CountSlots ==
    /\ phase = "labels" /\ cursor <= Len(statements) /\ Current.kind # "label"
    /\ insn_ptr' = insn_ptr + SlotsOf(Current)
    /\ cursor' = cursor + 1
    /\ UNCHANGED <<analysis, phase, version, statements, labels, function_registry, instructions,
                   entry_pc, printer, original>>

LabelsDone ==
    /\ phase = "labels" /\ cursor > Len(statements)
    /\ phase' = "emit" /\ cursor' = 1 /\ insn_ptr' = 0
    /\ UNCHANGED <<analysis, version, statements, labels, function_registry, instructions,
                   entry_pc, printer, original>>

-----------------------------------------------------------------------------
(* The second pass: slots.                                                 *)

PassLabel ==
    /\ phase = "emit" /\ cursor <= Len(statements) /\ Current.kind = "label"
    /\ cursor' = cursor + 1
    /\ UNCHANGED <<analysis, phase, version, statements, insn_ptr, labels, function_registry,
                   instructions, entry_pc, printer, original>>

(* fill is the only directive; the first pass has let others go by.        *)
EmitDirective ==
    /\ phase = "emit" /\ cursor <= Len(statements) /\ Current.kind \in Directives
    /\ IF Current.kind # "fill" THEN phase' = "failed" /\ UNCHANGED <<instructions, insn_ptr>>
       ELSE /\ instructions' = instructions \o [k \in 1..Current.fill.repeat |-> Current.fill.insn]
            /\ insn_ptr' = insn_ptr + Current.fill.repeat
            /\ UNCHANGED phase
    /\ cursor' = cursor + 1
    /\ UNCHANGED <<analysis, version, statements, labels, function_registry, entry_pc,
                   printer, original>>

(* A call of a number makes its target a function.                         *)
WithCallee(statement) ==
    LET target_pc == statement.operands[1].value + insn_ptr + 1
    IN  IF /\ make_instruction_map(version, statement.mnemonic).type = "CallImm"
           /\ Shape("CallImm", statement.operands) = <<"CallImm", "Target">>
           /\ statement.operands[1].kind = "Integer"
        THEN RegisterFunction(function_registry, AsUnsigned(target_pc),
                              FunctionName(AsUsize(target_pc)), AsUsize(target_pc))
        ELSE Registered(function_registry, "none", 0)

EmitInstruction ==
    /\ phase = "emit" /\ cursor <= Len(statements) /\ Current.kind = "insn"
    /\ LET registered == WithCallee(Current)
           emitted == assemble_instruction(version, insn_ptr, labels, Current)
           slots == Slots(Current, emitted.insn)
       IN  /\ function_registry' = registered.map
           /\ IF registered.error = "none" /\ emitted.error = "none"
              THEN /\ instructions' = instructions \o slots
                   /\ insn_ptr' = insn_ptr + Len(slots)
                   /\ UNCHANGED phase
              ELSE phase' = "failed" /\ UNCHANGED <<instructions, insn_ptr>>
    /\ cursor' = cursor + 1
    /\ UNCHANGED <<analysis, version, statements, labels, entry_pc, printer, original>>

EmitDone ==
    /\ phase = "emit" /\ cursor > Len(statements)
    /\ phase' = "load"
    /\ UNCHANGED <<analysis, version, assembler, printer, original>>

-----------------------------------------------------------------------------
(* new_from_text_bytes: the entrypoint is a function of that name, or is   *)
(* registered as pc 0.                                                     *)
WithEntrypoint ==
    LET hashed == ~StaticSyscalls(version)
        key == IF hashed THEN Hash(Entrypoint) ELSE 0
    IN  IF hashed /\ LookupByKey(Loader, key) # {}
        THEN Registered(function_registry, "SymbolHashCollision", key)
        ELSE RegisterFunction(function_registry, key, Entrypoint, 0)

new_from_text_bytes ==
    /\ phase = "load"
    /\ LET named == {k \in Keys(function_registry) : function_registry[k].name = Entrypoint}
       IN  IF named # {}
           THEN /\ entry_pc' = function_registry[Min(named)].value
                /\ phase' = "loaded" /\ UNCHANGED function_registry
           ELSE /\ entry_pc' = 0
                /\ function_registry' = WithEntrypoint.map
                /\ phase' = IF WithEntrypoint.error = "none" THEN "loaded" ELSE "failed"
    /\ UNCHANGED <<analysis, version, statements, cursor, insn_ptr, labels, instructions, printer,
                   original>>

-----------------------------------------------------------------------------
(* from_executable: the program as the analysis sees it.  slot is a slot   *)
(* of instructions, counted from 0.                                        *)

Op(v, opc) ==
    CASE opc = JA -> "JA"
      [] opc \in Branches(BPF_JMP64) -> "JCC"
      [] opc \in Branches(BPF_JMP32) /\ EnableJmp32(v) -> "JCC"
      [] opc = CALL_IMM -> "CALL"
      [] opc = CALL_REG -> "CALLX"
      [] opc = EXIT -> "EXIT"
      [] opc = LD_DW_IMM -> "LDDW"
      [] OTHER -> "OTHER"

(* The match of intra_basic_block_data_flow, which asks for the version    *)
(* for jumps of 32 bits only.                                              *)
OldSize(opc, class) == \E s \in AccessSizes : opc = class + BPF_MEM + BPF_SIZE[s]
ImmOrReg(opc, name) == IF TakesRegister(opc) THEN name.reg ELSE name.imm
SignedDivisions == Pqr32({"SDIV"}) \cup Pqr64({"SDIV"})
DataArm(v, opc) ==
    CASE Op(v, opc) \in {"CALL", "CALLX", "EXIT", "LDDW", "JA"} -> Op(v, opc)
      [] Op(v, opc) = "JCC" -> ImmOrReg(opc, [imm |-> "JCC_IMM", reg |-> "JCC_REG"])
      [] OldSize(opc, BPF_LDX) -> "LD_REG"
      [] OldSize(opc, BPF_ST) -> "ST_IMM"
      [] OldSize(opc, BPF_STX) -> "ST_REG"
      [] opc \in Alu({"MOV"}) -> ImmOrReg(opc, [imm |-> "MOV_IMM", reg |-> "MOV_REG"])
      [] opc \in {NEG32, NEG64, LE, BE, HOR64_IMM} -> "ALU_IMM"
      [] opc \in Alu(alu_binary_ops \ {"MOV", "HOR"}) \cup SignedDivisions ->
            ImmOrReg(opc, [imm |-> "ALU_IMM", reg |-> "ALU_REG"])
      [] OTHER -> "none"

Fate(register) == IF register \in 6..9 THEN "S" ELSE "R"
SlotAt(slot) == instructions[slot + 1]
IsHalf(slot) == slot > 0 /\ SlotAt(slot - 1).opc = LD_DW_IMM

(* A call is looked up by its key; -1 is nobody's pc.                      *)
CalleeOf(slot) ==
    LET callee == LookupByKey(function_registry, AsUnsigned(SlotAt(slot).imm))
    IN  IF StaticSyscalls(version) THEN slot + SlotAt(slot).imm + 1
        ELSE IF callee = {} THEN -1 ELSE The(callee).value

LineAt(slot) ==
    LET i == SlotAt(slot)
        op == IF IsHalf(slot) THEN "HALF" ELSE Op(version, i.opc)
    IN  [op |-> op,
         data |-> IF op = "HALF" THEN "none" ELSE DataArm(version, i.opc),
         target |-> CASE op \in Jumps -> slot + i.off + 1
                      [] op = "CALL" -> CalleeOf(slot)
                      [] OTHER -> 0,
         dst |-> Fate(i.dst), src |-> Fate(i.src)]

AsProgram ==
    LET n == Len(instructions)
    IN  [n |-> n, static_syscalls |-> StaticSyscalls(version),
         functions |-> {function_registry[k].value : k \in Keys(function_registry)},
         text |-> [slot \in 0..n-1 |-> LineAt(slot)]]

-----------------------------------------------------------------------------
(* Analysis::disassemble.                                                  *)

(* augment_lddw_unchecked                                                  *)
Augmented(slot) ==
    LET i == SlotAt(slot)
    IN  IF i.opc # LD_DW_IMM THEN i
        ELSE [i EXCEPT !.imm = AsUnsigned(@) + ImmSpan * SlotAt(slot + 1).imm]

(* label_basic_blocks: the functions of a pc are in the order of keys, and *)
(* the last one gives the name; one that only the super root leads to is   *)
(* named after its pc.                                                     *)
NameAt(pc) ==
    function_registry[Max({k \in Keys(function_registry) : function_registry[k].value = pc})].name
label_basic_blocks ==
    [v \in Nodes |-> IF v \in program.functions THEN NameAt(v)
                    ELSE IF v \in functions THEN FunctionName(v)
                    ELSE BlockName(v)]

Printed(slot, number) ==
    disassemble_instruction(version, Augmented(slot), slot, number, label_basic_blocks,
                            function_registry, Loader)

(* The verifier has accepted what is analysed; of its checks, those that   *)
(* the analysis and the disassembler rely on.                              *)
VerifierOpcodes(v) ==
    Loads(v) \cup StoresImm(v) \cup StoresReg(v)
        \cup Alu({"ADD", "SUB", "OR", "AND", "LSH", "RSH", "XOR", "MOV", "ARSH"})
        \cup When(~EnablePqr(v), Alu({"MUL", "DIV", "MOD"}))
        \cup When(EnablePqr(v), Pqr32(DOMAIN BPF_PQR_OP \ {"UHMUL", "SHMUL"})
                                    \cup Pqr64(DOMAIN BPF_PQR_OP))
        \cup When(~DisableNeg(v), {NEG32, NEG64}) \cup When(~DisableLe(v), {LE})
        \cup {BE, IF DisableLddw(v) THEN HOR64_IMM ELSE LD_DW_IMM}
        \cup When(EnableJmp32(v), Branches(BPF_JMP32)) \cup Branches(BPF_JMP64)
        \cup {JA, CALL_IMM, CALL_REG, EXIT}

check_registers(i) ==
    /\ i.src <= 10
    /\ \/ i.dst < 10
       \/ i.dst = 10 /\ i.opc \in StoresImm(version) \cup StoresReg(version)
       \/ /\ i.dst = 10 /\ i.opc = BPF_ALU64_STORE + BPF_OP["ADD"]
          /\ ManualStackFrameBump(version)

Verified ==
    /\ IsProgram(AsProgram)
    /\ \A slot \in 0..Len(instructions)-1 :
        LET i == SlotAt(slot)
        IN  IF IsHalf(slot) THEN i.opc = 0
            ELSE /\ i.opc \in VerifierOpcodes(version)
                 /\ check_registers(i)
                 /\ i.opc \in {LE, BE} => i.imm \in {16, 32, 64}
                 /\ i.opc = CALL_REG => call_reg_str(version, i)[1].value \in 0..9

from_executable ==
    /\ phase = "loaded" /\ original = Nothing
    /\ IF Verified THEN phase' = "split" /\ program' = AsProgram
       ELSE phase' = "rejected" /\ UNCHANGED program
    /\ cursor' = 1
    /\ UNCHANGED <<graph, search, order, dominance, flow, version, statements, insn_ptr, labels,
                   function_registry, instructions, entry_pc, printer, original>>

Analyse ==
    /\ FlowNext
    /\ UNCHANGED <<version, assembler, printer, original>>

(* disassemble_label and disassemble_instruction                           *)
InOrder == Sorted(Instructions(program), <)

PrintJumpedOver ==      \* mutant: a block behind a JA counts as entered from above
    /\ phase = "analysed" /\ cursor <= Cardinality(Instructions(program)) /\ instructions # <<>>
    /\ LET slot == InOrder[cursor]
           labelled == slot \in functions \/ AllSources(slot) # <<last_basic_block>>
       IN  /\ listing' = listing
                \o (IF slot \in Nodes /\ labelled THEN <<Label(label_basic_blocks[slot])>> ELSE <<>>)
                \o <<Printed(slot, cursor - 1)>>
           /\ last_basic_block' = IF slot \in Nodes THEN slot ELSE last_basic_block
    /\ cursor' = cursor + 1
    /\ UNCHANGED <<analysis, phase, version, statements, insn_ptr, labels, function_registry,
                   instructions, entry_pc, original>>

PrintInstruction ==
    /\ phase = "analysed" /\ cursor <= Cardinality(Instructions(program)) /\ instructions # <<>>
    /\ LET slot == InOrder[cursor]
           labelled == slot \in functions \/ AllSources(slot) # <<last_basic_block>>
       IN  /\ listing' = listing
                \o (IF slot \in Nodes /\ labelled THEN <<Label(label_basic_blocks[slot])>> ELSE <<>>)
                \o <<Printed(slot, cursor - 1)>>
           /\ last_basic_block' =
                IF slot \notin Nodes THEN last_basic_block
                ELSE IF program.text[Max(blocks[slot])].op = "JA" THEN MAX ELSE slot
    /\ cursor' = cursor + 1
    /\ UNCHANGED <<analysis, phase, version, statements, insn_ptr, labels, function_registry,
                   instructions, entry_pc, original>>

(* What the listing cannot say: two blocks of one name, also when one is a *)
(* function that happens to have the name the analysis gives to code       *)
(* nothing leads to; a function in the second half of a lddw; and behind a *)
(* lddw the target of a call, with static syscalls, which is looked up     *)
(* relative to the wrong number.                                           *)
Ambiguous ==
    \/ \E v, w \in Nodes : v # w /\ label_basic_blocks[v] = label_basic_blocks[w]
    \/ ~(program.functions \subseteq Instructions(program))
    \/ /\ program.static_syscalls
       /\ \E i \in Instructions(program) : program.text[i].op = "CALL" /\ Number(program, i) # i

(* What was printed is assembled from the start.                           *)
Reassemble ==
    /\ phase = "analysed" /\ cursor > Cardinality(Instructions(program)) /\ instructions # <<>>
    /\ phase' = "labels"
    /\ original' = [instructions |-> instructions, entry_pc |-> entry_pc,
                    ambiguous |-> Ambiguous]
    /\ statements' = listing /\ cursor' = 1 /\ insn_ptr' = 0
    /\ labels' = Unlabelled /\ function_registry' = NoFunctions
    /\ instructions' = <<>> /\ entry_pc' = 0
    /\ UNCHANGED <<analysis, version, printer>>

ToolNext ==
    \/ DefineLabel \/ CountSlots \/ LabelsDone
    \/ PassLabel \/ EmitDirective \/ EmitInstruction \/ EmitDone
    \/ new_from_text_bytes \/ from_executable \/ Analyse
    \/ PrintInstruction \/ Reassemble

(* An analysis that was called runs to its end.                            *)
ToolSpec == ToolInit /\ [][ToolNext]_tool_vars /\ WF_tool_vars(Analyse)

-----------------------------------------------------------------------------
(* Properties.                                                             *)

(* The two passes of assemble agree on where a label is: when the second   *)
(* one comes by, as many slots have been emitted as the first one counted, *)
(* unless the label is defined again further down.                         *)
PassesAgree ==
    (phase = "emit" /\ cursor <= Len(statements) /\ Current.kind = "label") =>
        \/ \E k \in cursor+1..Len(statements) : statements[k].name = Current.name
        \/ labels[Current.name] = Len(instructions)

(* A listing is a program: unless it is ambiguous in one of those ways,    *)
(* what the disassembler printed, assembled again, gives the same slots    *)
(* and the same entrypoint, and all functions are functions again          *)
(* (static_analysis.rs disassemble, disassembler.rs).                      *)
Reassembles ==
    (original # Nothing /\ ~original.ambiguous) =>
        /\ phase # "failed"
        /\ phase = "loaded" =>
            /\ instructions = original.instructions /\ entry_pc = original.entry_pc
            /\ program.functions \subseteq
                    {function_registry[k].value : k \in Keys(function_registry)}

=============================================================================
