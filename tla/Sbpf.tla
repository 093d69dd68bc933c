-------------------------------- MODULE Sbpf --------------------------------
(***************************************************************************)
(* What every part of the virtual machine shares: the configuration, the   *)
(* features of an SBPF version, programs and their instructions, and the   *)
(* effect of an instruction on registers and memory.                       *)
(*                                                                         *)
(* Registers are abstracted to their roles: R0 is r0, R1 stands for the    *)
(* argument registers r1..r5, R6 for r6..r9, which a call saves and a      *)
(* return restores, and FP is r10.  The memory behind the memory mapping   *)
(* is one cell; an access to a virtual address reaches it or is refused.   *)
(* Opcodes are grouped by what the verifier and the engines do differently *)
(* for them: MOV64_IMM stands for every arithmetic instruction that cannot *)
(* fail, SHIFT64_IMM and SHIFT32_IMM for every shift of a register or of   *)
(* its lower half by a constant, ENDIAN for le and be, DIV_IMM and DIV_REG *)
(* for every unsigned quotient and remainder, SDIV_REG for the signed      *)
(* ones, JEQ for every conditional jump, LDX and ST for every load and     *)
(* store.  ZERO is opcode 0, the second slot of lddw.                      *)
(***************************************************************************)
EXTENDS Ebpf, FiniteSets

CONSTANTS
    MaxCallDepth,       \* config.max_call_depth
    StackFrameSize,     \* config.stack_frame_size
    StackFrameGaps,     \* config.enable_stack_frame_gaps
    Word,               \* number of values of a register (2^64 in the code)
    InsnSize,           \* ebpf::INSN_SIZE
    TextStart,          \* program_vm_addr, where the text section is mapped
    StackStart,         \* ebpf::MM_STACK_START
    StackLen,           \* the stack_len EbpfVm::new is given
    Readable, Writable, \* virtual addresses a load / a store may access
    Immediates,         \* values of the immediate field
    Arith(_, _, _),     \* result of an infallible opcode, given dst and imm
    SyscallKeys,        \* keys of the loader's function registry
    SyscallCost(_),     \* what a syscall consumes, given its arguments
    SyscallFails(_),    \* whether it returns an error
    SyscallValue(_)     \* what it returns otherwise

ASSUME ConfigAssumption ==
    /\ MaxCallDepth \in Nat \ {0}
    /\ StackFrameSize \in Nat
    /\ StackFrameGaps \in BOOLEAN
    /\ Word \in Nat \ {0} /\ Word % 2 = 0
    /\ InsnSize \in Nat \ {0}
    /\ TextStart \in 0..Word-1
    /\ StackStart \in 0..Word-1
    /\ StackLen \in Nat
    /\ SyscallKeys \subseteq Int
    /\ Immediates \subseteq -(Word \div 2)..(Word \div 2)-1
ASSUME ArithAssumption ==
    \A op \in {"MOV64_IMM", "ADD64_IMM", "SHIFT64_IMM", "SHIFT32_IMM", "ENDIAN", "LD_DW_IMM"} :
        \A v \in 0..Word-1, imm \in Immediates : Arith(op, v, imm) \in 0..Word-1
ASSUME SyscallAssumption ==
    \A v \in 0..Word-1 : /\ SyscallCost(v) \in Nat
                         /\ SyscallFails(v) \in BOOLEAN
                         /\ SyscallValue(v) \in 0..Word-1

Words == 0..Word-1
R0 == 0
R1 == 1
R6 == 6
FP == 10
Registers == {R0, R1, R6, FP}

-----------------------------------------------------------------------------
WrappingAdd(a, b) == (a + b) % Word
WrappingSub(a, b) == (a - b) % Word
SaturatingAdd(a, b) == IF a + b < Word THEN a + b ELSE Word - 1

-----------------------------------------------------------------------------
(* Programs: `text' holds the instruction of every slot 0..n-1, `functions' *)
(* is the function registry with the pc of a function as its key, `entry'   *)
(* is the pc execution starts at.                                           *)

Opcodes == {"LD_DW_IMM", "ZERO", "MOV64_IMM", "ADD64_IMM", "SHIFT64_IMM", "SHIFT32_IMM",
            "ENDIAN", "DIV_IMM", "DIV_REG", "SDIV_REG", "LDX", "ST", "JA", "JEQ",
            "CALL_REG", "CALL_IMM", "EXIT", "UNKNOWN"}

(* What the four bits of a register field may hold; 12 stands for every    *)
(* value that names no register.                                           *)
RegisterFields == Registers \cup {12}

IsInsn(insn) ==
    /\ insn.op \in Opcodes
    /\ insn.dst \in RegisterFields /\ insn.src \in RegisterFields
    /\ insn.imm \in Immediates /\ insn.off \in Int
    /\ insn.op = "CALL_REG" => insn.imm \in RegisterFields

IsProgram(p) ==
    /\ p.version \in Versions
    /\ p.n \in Nat \ {0}
    /\ DOMAIN p.text = 0..p.n-1
    /\ \A i \in 0..p.n-1 : IsInsn(p.text[i])
    /\ p.functions \subseteq 0..p.n-1
    /\ p.entry \in 0..p.n-1

IsPcInProgram(p, pc) == pc + 1 <= p.n

(* The register whose value is the address callx jumps to.                 *)
CallxRegister(p, insn) ==
    IF CallxUsesSrcReg(p.version) THEN insn.src
    ELSE IF CallxUsesDstReg(p.version) THEN insn.dst
    ELSE insn.imm

(* The instruction slot an address names, whatever its alignment.          *)
CallxTarget(address) == WrappingSub(address, TextStart) \div InsnSize

(* The two ways CALL_IMM may be resolved.                                  *)
ResolvesToSyscall(p, insn) ==
    /\ ~StaticSyscalls(p.version) \/ insn.src = 0
    /\ insn.imm \in SyscallKeys

CallTarget(p, pc, insn) ==
    IF StaticSyscalls(p.version) THEN pc + 1 + insn.imm ELSE insn.imm

ResolvesToFunction(p, pc, insn) ==
    IF StaticSyscalls(p.version)
    THEN /\ insn.src = 1
         /\ CallTarget(p, pc, insn) \in 0..p.n-1
    ELSE insn.imm \in p.functions

-----------------------------------------------------------------------------
(* Register arithmetic.                                                    *)

Signed(a) == IF a < Word \div 2 THEN a ELSE a - Word
Quotient(a, b) ==
    IF (a < 0) = (b < 0) THEN (IF a < 0 THEN (-a) \div (-b) ELSE a \div b)
    ELSE -((IF a < 0 THEN -a ELSE a) \div (IF b < 0 THEN -b ELSE b))

(* The frame pointer a program starts with, and what a call adds to it.    *)
InitialFramePointer(v) ==
    IF ManualStackFrameBump(v) THEN SaturatingAdd(StackStart, StackLen)
    ELSE SaturatingAdd(StackStart, StackFrameSize)

FrameBump(v) ==
    IF ManualStackFrameBump(v) THEN 0
    ELSE IF HasStackFrameGaps(v) /\ StackFrameGaps THEN 2 * StackFrameSize
    ELSE StackFrameSize

-----------------------------------------------------------------------------
(* Instructions that neither branch nor call.  `Fault' is the error such   *)
(* an instruction raises, or "none".                                       *)

ArithOps == {"MOV64_IMM", "ADD64_IMM", "SHIFT64_IMM", "SHIFT32_IMM", "ENDIAN"}
DataOps == ArithOps \cup {"DIV_IMM", "DIV_REG", "SDIV_REG", "LDX", "ST"}

IsDataOp(p, insn) ==
    /\ insn.op \in DataOps
    /\ insn.op = "SDIV_REG" => EnablePqr(p.version)

IsUnsupported(p, insn) ==
    /\ ~IsDataOp(p, insn)
    /\ insn.op \notin {"JA", "JEQ", "CALL_REG", "CALL_IMM", "EXIT"}
    /\ insn.op # "LD_DW_IMM" \/ DisableLddw(p.version)

Fault(insn, reg) ==
    CASE insn.op \in {"DIV_REG", "SDIV_REG"} /\ reg[insn.src] = 0
            -> "DivideByZero"
      [] insn.op = "SDIV_REG" /\ reg[insn.src] = Word - 1
                              /\ reg[insn.dst] = Word \div 2
            -> "DivideOverflow"
      [] insn.op = "ENDIAN" /\ insn.imm \notin {16, 32, 64} -> "InvalidInstruction"
      [] insn.op = "LDX" /\ WrappingAdd(reg[insn.src], insn.off) \notin Readable
            -> "AccessViolation"
      [] insn.op = "ST" /\ WrappingAdd(reg[insn.dst], insn.off) \notin Writable
            -> "AccessViolation"
      [] OTHER -> "none"

RegistersAfter(insn, reg, mem) ==
    CASE insn.op \in ArithOps ->
            [reg EXCEPT ![insn.dst] = Arith(insn.op, @, insn.imm)]
      [] insn.op = "DIV_IMM" -> 
            [reg EXCEPT ![insn.dst] = @ \div (insn.imm % Word)]
      [] insn.op = "DIV_REG" ->
            [reg EXCEPT ![insn.dst] = @ \div reg[insn.src]]
      [] insn.op = "SDIV_REG" ->
            [reg EXCEPT ![insn.dst] =
                Quotient(Signed(@), Signed(reg[insn.src])) % Word]
      [] insn.op = "LDX" -> [reg EXCEPT ![insn.dst] = mem]
      [] OTHER -> reg

MemoryAfter(insn, reg, mem) ==
    IF insn.op = "ST" THEN reg[insn.src] ELSE mem

BranchTaken(insn, reg) ==
    \/ insn.op = "JA"
    \/ insn.op = "JEQ" /\ reg[insn.dst] = insn.imm % Word

JumpTarget(pc, insn) == pc + 1 + insn.off

-----------------------------------------------------------------------------
(* ProgramResult.                                                          *)

Ok(v)  == [tag |-> "Ok",  value |-> v, error |-> "none"]
Err(e) == [tag |-> "Err", value |-> 0, error |-> e]

Errors == {"ExceededMaxInstructions", "ExecutionOverrun", "AccessViolation",
           "DivideByZero", "DivideOverflow", "CallDepthExceeded",
           "CallOutsideTextSegment", "UnsupportedInstruction", "InvalidInstruction",
           "SyscallError"}

Results == {Ok(v) : v \in Words} \cup {Err(e) : e \in Errors}

=============================================================================
