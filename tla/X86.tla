-------------------------------- MODULE X86 --------------------------------
(***************************************************************************)
(* The machine code encoder (x86.rs): the constructors of X86Instruction   *)
(* and X86Instruction::emit, which turns one into prefixes, opcode, ModRM, *)
(* SIB, displacement and immediate.  A relative jump carries where it      *)
(* leads, as the compiler only knows the distance when it emits it.        *)
(***************************************************************************)
EXTENDS MachineWords, Sequences

CONSTANT HostBase   \* numbers from here on are host addresses and offsets

RAX == 0
RCX == 1
RDX == 2
RBX == 3
RSP == 4
RBP == 5
RSI == 6
RDI == 7
R8  == 8
R9  == 9
R10 == 10
R11 == 11
R12 == 12
R13 == 13
R14 == 14
R15 == 15
MM0 == 16

ARGUMENT_REGISTERS     == <<RDI, RSI, RDX, RCX, R8, R9>>
CALLER_SAVED_REGISTERS == <<RAX, RCX, RDX, RSI, RDI, R8, R9, R10, R11>>
CALLEE_SAVED_REGISTERS == <<RBP, RBX, R12, R13, R14, R15>>

(* X86IndirectAccess                                                       *)
Direct == [kind |-> "None", offset |-> 0, index |-> 0, shift |-> 0]
Offset(offset) == [Direct EXCEPT !.kind = "Offset", !.offset = offset]
OffsetIndexShift(offset, index, shift) ==
    [kind |-> "OffsetIndexShift", offset |-> offset, index |-> index, shift |-> shift]

NoLink == <<"none", 0>>

DEFAULT ==
    [size |-> "S0", opcode_escape_sequence |-> 0, opcode |-> 0, modrm |-> TRUE,
     indirect |-> Direct, first_operand |-> 0, second_operand |-> 0,
     immediate_size |-> "S0", immediate |-> 0, link |-> NoLink]

-----------------------------------------------------------------------------
(* Constructors.                                                           *)

alu_escaped(size, escape, opcode, source, destination, indirect) ==
    [DEFAULT EXCEPT !.size = size, !.opcode_escape_sequence = escape, !.opcode = opcode,
                    !.first_operand = source, !.second_operand = destination,
                    !.indirect = indirect]

alu(size, opcode, source, destination, indirect) ==
    alu_escaped(size, 0, opcode, source, destination, indirect)

alu_immediate(size, opcode, opcode_extension, destination, immediate, indirect) ==
    [DEFAULT EXCEPT !.size = size, !.opcode = opcode,
                    !.first_operand = opcode_extension, !.second_operand = destination,
                    !.immediate_size =
                        CASE opcode = \hc1 -> "S8"
                          [] opcode = \h81 -> "S32"
                          [] opcode = \hf7 /\ opcode_extension = 0 -> "S32"
                          [] OTHER -> "S0",
                    !.immediate = immediate, !.indirect = indirect]

mov(size, source, destination) == alu(size, \h89, source, destination, Direct)

mov_with_sign_extension(size, source, destination) ==
    alu(size, \h63, destination, source, Direct)

mov_mmx(size, source, destination) ==
    IF destination >= MM0
    THEN alu_escaped(size, 1, IF source >= MM0 THEN \h6f ELSE \h6e,
                     destination % 16, source % 16, Direct)
    ELSE alu_escaped(size, 1, \h7e, source % 16, destination % 16, Direct)

cmov(size, condition, source, destination) ==
    alu_escaped(size, 1, condition, destination, source, Direct)

xchg(size, source, destination, indirect) == alu(size, \h87, source, destination, indirect)

bswap(size, destination) ==
    IF size = "S16"
    THEN [DEFAULT EXCEPT !.size = size, !.opcode = \hc1, !.second_operand = destination,
                         !.immediate_size = "S8", !.immediate = Bits["S8"]]
    ELSE [DEFAULT EXCEPT !.size = size, !.opcode_escape_sequence = 1,
                         !.opcode = \hc8 + (destination % 8), !.modrm = FALSE,
                         !.second_operand = destination]

(* An immediate is never longer than 32 bits.                              *)
Shortened(size) == IF size = "S64" THEN "S32" ELSE size

test(size, source, destination, indirect) ==
    alu(size, IF size = "S8" THEN \h84 ELSE \h85, source, destination, indirect)

test_immediate(size, destination, immediate, indirect) ==
    [DEFAULT EXCEPT !.size = size, !.opcode = IF size = "S8" THEN \hf6 ELSE \hf7,
                    !.second_operand = destination, !.immediate_size = Shortened(size),
                    !.immediate = immediate, !.indirect = indirect]

cmp(size, source, destination, indirect) ==
    alu(size, IF size = "S8" THEN \h38 ELSE \h39, source, destination, indirect)

cmp_immediate(size, destination, immediate, indirect) ==
    [DEFAULT EXCEPT !.size = size, !.opcode = IF size = "S8" THEN \h80 ELSE \h81,
                    !.first_operand = 7, !.second_operand = destination,
                    !.immediate_size = Shortened(size),
                    !.immediate = immediate, !.indirect = indirect]

lea(size, source, destination, indirect) == alu(size, \h8d, destination, source, indirect)

sign_extend_rax_rdx(size) ==
    [DEFAULT EXCEPT !.size = size, !.opcode = \h99, !.modrm = FALSE]

load(size, source, destination, indirect) ==
    alu_escaped(IF size = "S64" THEN "S64" ELSE "S32",
                IF size \in {"S8", "S16"} THEN 1 ELSE 0,
                CASE size = "S8" -> \hb6 [] size = "S16" -> \hb7 [] OTHER -> \h8b,
                destination, source, indirect)

store(size, source, destination, indirect) ==
    alu(size, IF size = "S8" THEN \h88 ELSE \h89, source, destination, indirect)

load_immediate(destination, immediate) ==
    LET size == IF 0 <= immediate /\ immediate <= U32Max THEN "S32" ELSE "S64"
    IN  IF I32Min <= immediate /\ immediate < 0
        THEN [DEFAULT EXCEPT !.size = "S64", !.opcode = \hc7, !.second_operand = destination,
                             !.immediate_size = "S32", !.immediate = immediate]
        ELSE [DEFAULT EXCEPT !.size = size, !.opcode = \hb8 + (destination % 8), !.modrm = FALSE,
                             !.second_operand = destination,
                             !.immediate_size = size, !.immediate = immediate]

store_immediate(size, destination, indirect, immediate) ==
    [DEFAULT EXCEPT !.size = size, !.opcode = IF size = "S8" THEN \hc6 ELSE \hc7,
                    !.second_operand = destination, !.indirect = indirect,
                    !.immediate_size = Shortened(size), !.immediate = immediate]

push_immediate(size, immediate) ==
    [DEFAULT EXCEPT !.size = size, !.opcode = IF size = "S8" THEN \h6a ELSE \h68,
                    !.modrm = FALSE,
                    !.immediate_size = Shortened(size), !.immediate = immediate]

push(source, indirect) ==
    IF indirect = Direct
    THEN [DEFAULT EXCEPT !.size = "S32", !.opcode = \h50 + (source % 8), !.modrm = FALSE,
                         !.second_operand = source]
    ELSE alu("S64", \hff, 6, source, indirect)

pop(destination) ==
    [DEFAULT EXCEPT !.size = "S32", !.opcode = \h58 + (destination % 8), !.modrm = FALSE,
                    !.second_operand = destination]

(* Relative jumps; the distance is filled in when they are emitted.        *)
Relative(escape, opcode, link) ==
    [DEFAULT EXCEPT !.size = "S32", !.opcode_escape_sequence = escape, !.opcode = opcode,
                    !.modrm = FALSE, !.immediate_size = "S32", !.link = link]
conditional_jump_immediate(opcode, link) == Relative(1, opcode, link)
jump_immediate(link) == Relative(0, \he9, link)
call_immediate(link) == Relative(0, \he8, link)

call_reg(destination, indirect) == alu("S64", \hff, 2, destination, indirect)

Plain(opcode) == [DEFAULT EXCEPT !.size = "S32", !.opcode = opcode, !.modrm = FALSE]
return_near == Plain(\hc3)
noop == Plain(\h90)
-----------------------------------------------------------------------------
(* emit: the bytes of an instruction, field by field; 0 or NoByte stands   *)
(* for a byte that is left out.                                            *)

NoByte == -1
SizeBytes == [S0 |-> 0, S8 |-> 1, S16 |-> 2, S32 |-> 4, S64 |-> 8]
Flag(b) == IF b THEN 1 ELSE 0

(* emit_variable_length: an immediate loses what its size cannot hold; a   *)
(* shift count is a real byte, and a number of the host is never cut.      *)
CutTo(size, x) ==
    CASE size = "S0" -> 0
      [] size = "S8" -> x % 256
      [] OTHER -> IF x >= HostBase THEN x ELSE Low(size, x)

emit(ins) ==
    LET access == ins.indirect
        indexed == access.kind = "OffsetIndexShift"
        short == -128 <= access.offset /\ access.offset <= 127
        mode == IF access.kind = "None" THEN 3 ELSE IF short THEN 1 ELSE 2
        rex == 8 * Flag(ins.size = "S64") + 4 * Flag(ins.first_operand >= 8)
               + 2 * Flag(ins.modrm /\ indexed /\ access.index >= 8)
               + Flag(ins.second_operand >= 8)
        modrm == 64 * mode + 8 * (ins.first_operand % 8)
                 + (IF indexed THEN 4 ELSE ins.second_operand % 8)
        sib == IF indexed THEN 64 * (access.shift % 4) + 8 * (access.index % 8)
                               + (ins.second_operand % 8)
               ELSE 0
        displaced == IF ~ins.modrm \/ mode = 3 THEN "S0" ELSE IF short THEN "S8" ELSE "S32"
    IN  [osize |-> ins.size = "S16", rex |-> rex,
         escape |-> ins.opcode_escape_sequence, opcode |-> ins.opcode,
         modrm |-> IF ins.modrm THEN modrm ELSE NoByte,
         sib |-> IF ins.modrm /\ sib # 0 THEN sib ELSE NoByte,
         disp_size |-> displaced, disp |-> IF displaced = "S0" THEN 0 ELSE access.offset,
         imm_size |-> ins.immediate_size, imm |-> CutTo(ins.immediate_size, ins.immediate),
         link |-> ins.link]

Length(e) ==
    Flag(e.osize) + Flag(e.rex # 0) + (CASE e.escape = 0 -> 0 [] e.escape = 1 -> 1 [] OTHER -> 2)
    + 1 + Flag(e.modrm # NoByte) + Flag(e.sib # NoByte)
    + SizeBytes[e.disp_size] + SizeBytes[e.imm_size]
=============================================================================
