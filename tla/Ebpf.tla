-------------------------------- MODULE Ebpf --------------------------------
(***************************************************************************)
(* The instruction set: what an SBPF version enables (program.rs), how an  *)
(* opcode byte is put together (ebpf.rs) and, for each part that has a     *)
(* match over opcodes, which bytes it has an arm for in which version.     *)
(***************************************************************************)
EXTENDS Integers

Versions == {"V0", "V1", "V2", "V3", "V4"}

ManualStackFrameBump(v) == v \in {"V1", "V2"}
HasStackFrameGaps(v)    == v = "V0"
EnablePqr(v)            == v = "V2"
ExplicitSignExtensionOfResults(v) == v = "V2"
SwapSubRegImmOperands(v) == v = "V2"
DisableNeg(v)           == v = "V2"
CallxUsesSrcReg(v)      == v = "V2"
DisableLddw(v)          == v = "V2"
DisableLe(v)            == v = "V2"
MoveMemoryInstructionClasses(v) == v = "V2"
StaticSyscalls(v)       == v \in {"V3", "V4"}
EnableLowerRodataVaddr(v) == v \in {"V3", "V4"}
EnableJmp32(v)          == v \in {"V3", "V4"}
CallxUsesDstReg(v)      == v \in {"V3", "V4"}

-----------------------------------------------------------------------------
(* An opcode byte: three bits of class, one of source, four of operation;  *)
(* a memory access of the old classes has two bits of size instead.        *)

BPF_LD == 0
BPF_LDX == 1
BPF_ST == 2
BPF_STX == 3
BPF_ALU32_LOAD == 4
BPF_JMP64 == 5
BPF_JMP32 == 6
BPF_PQR == 6
BPF_ALU64_STORE == 7

BPF_K == 0
BPF_X == 8
BPF_MEM == 96

BPF_OP ==
    [ADD |-> 0, SUB |-> 16, MUL |-> 32, DIV |-> 48, OR |-> 64, AND |-> 80, LSH |-> 96,
     RSH |-> 112, NEG |-> 128, MOD |-> 144, XOR |-> 160, MOV |-> 176, ARSH |-> 192,
     END |-> 208, HOR |-> 240]

BPF_JUMP ==
    [JA |-> 0, JEQ |-> 16, JGT |-> 32, JGE |-> 48, JSET |-> 64, JNE |-> 80, JSGT |-> 96,
     JSGE |-> 112, CALL |-> 128, EXIT |-> 144, JLT |-> 160, JLE |-> 176, JSLT |-> 192,
     JSLE |-> 208]

(* Operations of the product, quotient and remainder class.  Bit 4 selects *)
(* the 64 bit form, bit 5 the upper half or the remainder, bit 6 division, *)
(* bit 7 signed operands.                                                  *)
BPF_PQR_OP ==
    [UHMUL |-> 32, UDIV |-> 64, UREM |-> 96, LMUL |-> 128, SHMUL |-> 160,
     SDIV |-> 192, SREM |-> 224]
BPF_PQR_64 == 16

(* Size fields: of the old classes, and of the moved ones.                 *)
BPF_SIZE   == [B |-> 16, H |-> 8, W |-> 0, DW |-> 24]
BPF_NBYTES == [B |-> 32, H |-> 48, W |-> 128, DW |-> 144]
AccessSizes == {"B", "H", "W", "DW"}
AccessLen == [B |-> 1, H |-> 2, W |-> 4, DW |-> 8]

LD_DW_IMM == BPF_LD + BPF_SIZE["DW"]
NEG32     == BPF_ALU32_LOAD + BPF_OP["NEG"]
NEG64     == BPF_ALU64_STORE + BPF_OP["NEG"]
LE        == BPF_ALU32_LOAD + BPF_K + BPF_OP["END"]
BE        == BPF_ALU32_LOAD + BPF_X + BPF_OP["END"]
HOR64_IMM == BPF_ALU64_STORE + BPF_K + BPF_OP["HOR"]
JA        == BPF_JMP64 + BPF_JUMP["JA"]
CALL_IMM  == BPF_JMP64 + BPF_JUMP["CALL"]
CALL_REG  == BPF_JMP64 + BPF_X + BPF_JUMP["CALL"]
EXIT      == BPF_JMP64 + BPF_JUMP["EXIT"]

Class(opc) == opc % 8
Operation(opc) == 16 * (opc \div 16)
TakesRegister(opc) == (opc \div 8) % 2 = 1
Bit(opc, n) == (opc \div 2^n) % 2 = 1

(* Families of opcodes that differ in class, operation and source.         *)
Family(classes, table, names) ==
    { c + x + table[n] : c \in classes, x \in {BPF_K, BPF_X}, n \in names }

Alu(names)    == Family({BPF_ALU32_LOAD, BPF_ALU64_STORE}, BPF_OP, names)
Branches(c)   == Family({c}, BPF_JUMP, DOMAIN BPF_JUMP \ {"JA", "CALL", "EXIT"})
Pqr32(names)  == Family({BPF_PQR}, BPF_PQR_OP, names)
Pqr64(names)  == Family({BPF_PQR + BPF_PQR_64}, BPF_PQR_OP, names)

LoadOf(v, s) ==
    IF MoveMemoryInstructionClasses(v) THEN BPF_ALU32_LOAD + BPF_X + BPF_NBYTES[s]
    ELSE BPF_LDX + BPF_MEM + BPF_SIZE[s]
StoreImmOf(v, s) ==
    IF MoveMemoryInstructionClasses(v) THEN BPF_ALU64_STORE + BPF_K + BPF_NBYTES[s]
    ELSE BPF_ST + BPF_MEM + BPF_SIZE[s]
StoreRegOf(v, s) ==
    IF MoveMemoryInstructionClasses(v) THEN BPF_ALU64_STORE + BPF_X + BPF_NBYTES[s]
    ELSE BPF_STX + BPF_MEM + BPF_SIZE[s]

Loads(v)     == { LoadOf(v, s) : s \in AccessSizes }
StoresImm(v) == { StoreImmOf(v, s) : s \in AccessSizes }
StoresReg(v) == { StoreRegOf(v, s) : s \in AccessSizes }
SizeOfLoad(v, opc)     == CHOOSE s \in AccessSizes : LoadOf(v, s) = opc
SizeOfStoreImm(v, opc) == CHOOSE s \in AccessSizes : StoreImmOf(v, s) = opc
SizeOfStoreReg(v, opc) == CHOOSE s \in AccessSizes : StoreRegOf(v, s) = opc
=============================================================================
