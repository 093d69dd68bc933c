------------------------------- MODULE JitCode -------------------------------
(***************************************************************************)
(* The x86-64 code JitCompiler emits: one sequence of X86 instructions per *)
(* emit_* function and per arm of compile, the shared subroutines, and the *)
(* layout of all of it in the text section.                                *)
(*                                                                         *)
(* p is the executable with its configuration: version, text, functions,   *)
(* meter, tracing, sanitize, checkpoint, and the random choices of one     *)
(* compilation: immediate_value_key, padding, noop_gap (instructions       *)
(* between two inserted noops; NoNoops for a rate of zero).                *)
(***************************************************************************)
EXTENDS InsnSemantics, X86, FiniteSets, TLC

CONSTANTS
    InsnSizeLog,
    RuntimeEnvironmentKey,
    TextSection, PcSection,              \* addresses of the two sections
    LoadFunction(_), StoreFunction(_),   \* MemoryMapping::load/store, by size
    SyscallFunction(_),                  \* the registered builtin, by key
    TracePush                            \* Vec::push of the register trace

NoNoops == -1

REGISTER_MAP == <<RAX, RSI, RDX, RCX, R8, R9, RBX, R12, R13, R14, R15>>
Mapped(r) == REGISTER_MAP[r + 1]
REGISTER_PTR_TO_VM == RDI
REGISTER_INSTRUCTION_METER == R10
REGISTER_SCRATCH == R11

ANCHOR_TRACE == 0
ANCHOR_THROW_EXCEEDED_MAX_INSTRUCTIONS == 1
ANCHOR_EPILOGUE == 2
ANCHOR_THROW_EXCEPTION_UNCHECKED == 3
ANCHOR_EXIT == 4
ANCHOR_THROW_EXCEPTION == 5
ANCHOR_CALL_DEPTH_EXCEEDED == 6
ANCHOR_CALL_REG_OUTSIDE_TEXT_SEGMENT == 7
ANCHOR_DIV_BY_ZERO == 8
ANCHOR_DIV_OVERFLOW == 9
ANCHOR_CALL_REG_UNSUPPORTED_INSTRUCTION == 10
ANCHOR_CALL_UNSUPPORTED_INSTRUCTION == 11
ANCHOR_EXTERNAL_FUNCTION_CALL == 12
ANCHOR_INTERNAL_FUNCTION_CALL_PROLOGUE == 13
ANCHOR_INTERNAL_FUNCTION_CALL_REG == 14
ANCHOR_TRANSLATE_MEMORY_ADDRESS == 21

MAX_EMPTY_PROGRAM_MACHINE_CODE_LENGTH == 4096
MAX_MACHINE_CODE_LENGTH_PER_INSTRUCTION == 110
MACHINE_CODE_PER_INSTRUCTION_METER_CHECKPOINT == 24
MAX_START_PADDING_LENGTH == 256

(* Byte offsets of the fields of EbpfVm the code uses.                     *)
RuntimeEnvironmentSlot ==
    [HostStackPointer |-> 0, CallDepth |-> 8, PreviousInstructionMeter |-> 24,
     DueInsnCount |-> 32, Registers |-> 56, ProgramResult |-> 152,
     MemoryMapping |-> 240, RegisterTrace |-> 400]

(* Discriminants of ProgramResult and of EbpfError.                        *)
OkDiscriminant  == 0
ErrDiscriminant == 1
ErrorKind ==
    [CallDepthExceeded |-> 2, DivideByZero |-> 4, DivideOverflow |-> 5,
     ExecutionOverrun |-> 6, CallOutsideTextSegment |-> 7, ExceededMaxInstructions |-> 8,
     AccessViolation |-> 11, UnsupportedInstruction |-> 14, SyscallError |-> 18]

(* relative_to_anchor and relative_to_target_pc, given the length of the   *)
(* instruction they are used in; resolved when it is placed.               *)
relative_to_anchor(anchor, length) == <<"anchor", anchor, length>>
relative_to_target_pc(pc, length)  == <<"pc", pc, length>>

InVm(slot) == Offset(RuntimeEnvironmentSlot[slot] - 8 * RuntimeEnvironmentKey)
SlotInVm(slot, plus) == Offset(RuntimeEnvironmentSlot[slot] + plus - 8 * RuntimeEnvironmentKey)
OnStack(offset) == OffsetIndexShift(offset, RSP, 0)

JumpTo(anchor)         == jump_immediate(relative_to_anchor(anchor, 5))
CallTo(anchor)         == call_immediate(relative_to_anchor(anchor, 5))
JumpIf(opcode, anchor) == conditional_jump_immediate(opcode, relative_to_anchor(anchor, 6))
AddTo(register, n)     == alu_immediate("S64", \h81, 0, register, n, Direct)

InsnCount(p) == Cardinality(Pcs(p))

When(condition, code) == IF condition THEN code ELSE << >>

-----------------------------------------------------------------------------
(* Constants a program provides.                                           *)

Wrap(x)     == Sign("S64", x)
FitsI32(x)  == I32Min <= x /\ x <= I32Max
Halves(x)   == Wrap(Ror("S64", x, Bits["S32"]))      \* rotate_right(32)
LowerKey(p) == Sign("S32", p.key)
UpperKey(p) == Sign("S32", p.key \div Span["S32"])

should_sanitize_constant(p, value) ==
    LET v == U64(value)
        byte == Span["S8"] - 1
    IN  /\ p.sanitize
        /\ v \notin { 2^(n * ByteBits) - 1 : n \in 2..8 }
        /\ v > byte
        /\ U64(-1 - v) > byte

\* Mutant: constants of 32 bits take the way of the wide ones.
emit_sanitized_load_immediate_always_wide(p, destination, value) ==
    << load_immediate(destination, Wrap(Halves(Wrap(value - LowerKey(p))) - UpperKey(p))),
       AddTo(destination, UpperKey(p)),
       alu_immediate("S64", \hc1, 1, destination, Bits["S32"], Direct),
       AddTo(destination, LowerKey(p)) >>

emit_sanitized_load_immediate(p, destination, value) ==
    IF FitsI32(value)
    THEN << load_immediate(destination, Wrap(value - LowerKey(p))),
            AddTo(destination, LowerKey(p)) >>
    ELSE IF Low("S32", value) = 0
    THEN << load_immediate(destination, Wrap(Halves(value) - LowerKey(p))),
            AddTo(destination, LowerKey(p)),
            alu_immediate("S64", \hc1, 4, destination, Bits["S32"], Direct) >>
    ELSE IF destination # REGISTER_SCRATCH
    THEN << load_immediate(destination, Wrap(value - p.key)),
            load_immediate(REGISTER_SCRATCH, p.key),
            alu("S64", \h01, REGISTER_SCRATCH, destination, Direct) >>
    ELSE << load_immediate(destination,
                           Wrap(Halves(Wrap(value - LowerKey(p))) - UpperKey(p))),
            AddTo(destination, UpperKey(p)),
            alu_immediate("S64", \hc1, 1, destination, Bits["S32"], Direct),
            AddTo(destination, LowerKey(p)) >>

LoadUserConstant(p, destination, value) ==
    IF should_sanitize_constant(p, value)
    THEN emit_sanitized_load_immediate(p, destination, value)
    ELSE << load_immediate(destination, value) >>

emit_sanitized_alu(p, size, opcode, extension, destination, immediate) ==
    LET through_scratch == << alu(size, opcode, REGISTER_SCRATCH, destination, Direct) >>
    IN  IF should_sanitize_constant(p, immediate)
        THEN emit_sanitized_load_immediate(p, REGISTER_SCRATCH, immediate) \o through_scratch
        ELSE IF FitsI32(immediate)
        THEN << alu_immediate(size, \h81, extension, destination, immediate, Direct) >>
        ELSE << load_immediate(REGISTER_SCRATCH, immediate) >> \o through_scratch

-----------------------------------------------------------------------------
(* The instruction meter; pc is where the compiler stands.                 *)

MeterCheck(p) ==
    When(p.meter, << cmp("S64", REGISTER_SCRATCH, REGISTER_INSTRUCTION_METER, Direct),
                     JumpIf(\h86, ANCHOR_THROW_EXCEEDED_MAX_INSTRUCTIONS) >>)
emit_validate_instruction_count(p, pc) ==
    When(p.meter, emit_sanitized_load_immediate(p, REGISTER_SCRATCH, pc)) \o MeterCheck(p)
emit_profile_instruction_count(p, pc, target_pc) ==
    When(p.meter, emit_sanitized_alu(p, "S64", \h01, 0, REGISTER_INSTRUCTION_METER,
                                     target_pc - pc - 1))
emit_undo_profile_instruction_count(p, pc, target_pc) ==
    When(p.meter, emit_sanitized_alu(p, "S64", \h01, 0, REGISTER_INSTRUCTION_METER,
                                     pc + 1 - target_pc))
emit_validate_and_profile_instruction_count(p, pc, target_pc) ==
    emit_validate_instruction_count(p, pc) \o emit_profile_instruction_count(p, pc, target_pc)
-----------------------------------------------------------------------------
(* Calls into Rust.  No call passes more than the six register arguments.  *)

PassRegister(index, register) ==
    When(register # ARGUMENT_REGISTERS[index+1],
         << mov("S64", register, ARGUMENT_REGISTERS[index+1]) >>)
PassStackWord(index, offset) == << load("S64", RSP, ARGUMENT_REGISTERS[index+1], OnStack(offset)) >>
PassInVm(index, slot) ==
    << lea("S64", REGISTER_PTR_TO_VM, ARGUMENT_REGISTERS[index+1], InVm(slot)) >>
PassConstant(index, value) == << load_immediate(ARGUMENT_REGISTERS[index+1], value) >>

CallRegister(register) == << call_reg(register, Direct) >>
CallConstant(address)  == << load_immediate(RAX, address), call_reg(RAX, Direct) >>

emit_rust_call(target, arguments) ==
    LET saved == CALLER_SAVED_REGISTERS
        n == Len(saved)
    IN  [i \in 1..n |-> push(saved[i], Direct)]
        \o arguments \o target \o << AddTo(RSP, 0) >>
        \o [i \in 1..n |-> pop(saved[n + 1 - i])]

(* A load or store: the address in the scratch register, the pc pushed,    *)
(* the value to store already 96 bytes below the stack pointer.            *)
StackSlotOfValueToStore == OnStack(-96)
TranslateAnchor(base, size) ==
    ANCHOR_TRANSLATE_MEMORY_ADDRESS + base
    + (CASE size = "B" -> 0 [] size = "H" -> 1 [] size = "W" -> 2 [] size = "DW" -> 3)
Translate(p, pc, register, offset, base, size) ==
    LoadUserConstant(p, REGISTER_SCRATCH, offset)
    \o << alu("S64", \h01, register, REGISTER_SCRATCH, Direct),
          push_immediate("S64", pc), CallTo(TranslateAnchor(base, size)) >>
emit_load(p, pc, dst, src, offset, size) ==
    Translate(p, pc, src, offset, 0, size) \o << mov("S64", REGISTER_SCRATCH, dst) >>
emit_store_register(p, pc, dst, offset, size, src) ==
    << store("S64", src, RSP, StackSlotOfValueToStore) >>
    \o Translate(p, pc, dst, offset, 4, size)
emit_store_immediate(p, pc, dst, offset, size, imm) ==
    << load_immediate(REGISTER_SCRATCH, Wrap(imm - LowerKey(p))),
       store("S64", REGISTER_SCRATCH, RSP, StackSlotOfValueToStore) >>
    \o Translate(p, pc, dst, offset, 8, size)

-----------------------------------------------------------------------------
(* Internal calls and branches.                                            *)

AfterInternalCall(p, pc) ==
    emit_undo_profile_instruction_count(p, pc, 0)
    \o << pop(Mapped(FramePtr)), pop(Mapped(9)), pop(Mapped(8)), pop(Mapped(7)), pop(Mapped(6)) >>
BeforeInternalCall(pc) ==
    << load_immediate(REGISTER_SCRATCH, pc), CallTo(ANCHOR_INTERNAL_FUNCTION_CALL_PROLOGUE) >>
emit_internal_call_reg(p, pc, register) ==
    BeforeInternalCall(pc)
    \o << store("S64", REGISTER_SCRATCH, RSP, OnStack(-24)),
          mov("S64", register, REGISTER_SCRATCH),
          CallTo(ANCHOR_INTERNAL_FUNCTION_CALL_REG) >>
    \o AfterInternalCall(p, pc)
emit_internal_call_pc(p, pc, target_pc) ==
    BeforeInternalCall(pc)
    \o emit_profile_instruction_count(p, pc, target_pc)
    \o LoadUserConstant(p, REGISTER_SCRATCH, target_pc)
    \o << call_immediate(relative_to_target_pc(target_pc, 5)) >>
    \o AfterInternalCall(p, pc)

BranchTo(p, pc, op, target_pc) ==
    << conditional_jump_immediate(op, relative_to_target_pc(target_pc, 6)) >>
    \o emit_undo_profile_instruction_count(p, pc, target_pc)
CompareWith(size, bitwise, first, second) ==
    << IF bitwise THEN test(size, first, second, Direct) ELSE cmp(size, first, second, Direct) >>
emit_conditional_branch_reg(p, pc, size, op, bitwise, first, second, target_pc) ==
    emit_validate_and_profile_instruction_count(p, pc, target_pc)
    \o CompareWith(size, bitwise, first, second) \o BranchTo(p, pc, op, target_pc)
emit_conditional_branch_imm(p, pc, size, op, bitwise, immediate, second, target_pc) ==
    emit_validate_and_profile_instruction_count(p, pc, target_pc)
    \o (IF should_sanitize_constant(p, immediate)
        THEN emit_sanitized_load_immediate(p, REGISTER_SCRATCH, immediate)
             \o CompareWith(size, bitwise, REGISTER_SCRATCH, second)
        ELSE << IF bitwise THEN test_immediate(size, second, immediate, Direct)
                ELSE cmp_immediate(size, second, immediate, Direct) >>)
    \o BranchTo(p, pc, op, target_pc)
-----------------------------------------------------------------------------
(* Shifts, products, quotients and remainders.  An optional immediate is a *)
(* sequence of at most one number.                                         *)

\* Mutant: the count goes to RCX even when RCX is what is shifted.
emit_shift_through_rcx(size, extension, source, destination, immediate) ==
    LET by_cl(register) == alu_immediate(size, \hd3, extension, register, 0, Direct)
        truncated == When(size = "S32", << mov("S32", destination, destination) >>)
    IN  IF immediate # << >>
        THEN << alu_immediate(size, \hc1, extension, destination, immediate[1], Direct) >>
        ELSE IF source = RCX THEN truncated \o << by_cl(destination) >>
        ELSE truncated \o << push(RCX, Direct), mov("S64", source, RCX),
                             by_cl(destination), pop(RCX) >>

emit_shift(size, extension, source, destination, immediate) ==
    LET by_cl(register) == alu_immediate(size, \hd3, extension, register, 0, Direct)
        truncated == When(size = "S32", << mov("S32", destination, destination) >>)
    IN  IF immediate # << >>
        THEN << alu_immediate(size, \hc1, extension, destination, immediate[1], Direct) >>
        ELSE IF source = RCX THEN truncated \o << by_cl(destination) >>
        ELSE IF destination = RCX
        THEN truncated \o << push(source, Direct), xchg("S64", source, RCX, Direct),
                             by_cl(source), mov("S64", source, RCX), pop(source) >>
        ELSE truncated \o << push(RCX, Direct), mov("S64", source, RCX),
                             by_cl(destination), pop(RCX) >>

CheckDivisor(pc, size, src) ==
    << load_immediate(REGISTER_SCRATCH, pc), test(size, src, src, Direct),
       JumpIf(\h84, ANCHOR_DIV_BY_ZERO) >>
CheckOverflow(pc, size, src, dst, imm) ==
    << load_immediate(REGISTER_SCRATCH, -(Span[size] \div 2)),
       cmp(size, dst, REGISTER_SCRATCH, Direct) >>
    \o When(imm = << >>,
            << load_immediate(REGISTER_SCRATCH, 0), cmov(size, \h45, src, REGISTER_SCRATCH),
               cmp_immediate(size, src, -1, Direct), cmov(size, \h45, src, REGISTER_SCRATCH),
               test(size, REGISTER_SCRATCH, REGISTER_SCRATCH, Direct) >>)
    \o << load_immediate(REGISTER_SCRATCH, pc), JumpIf(\h84, ANCHOR_DIV_OVERFLOW) >>

emit_product_quotient_remainder(p, pc, size, alt_dst, division, signed, src, dst, imm) ==
    When(division /\ imm = << >>, CheckDivisor(pc, size, src))
    \o When(division /\ signed /\ imm \in {<< >>, <<-1>>}, CheckOverflow(pc, size, src, dst, imm))
    \o (IF imm # << >> THEN LoadUserConstant(p, REGISTER_SCRATCH, imm[1])
        ELSE << mov("S64", src, REGISTER_SCRATCH) >>)
    \o When(dst # RAX, << push(RAX, Direct), mov("S64", dst, RAX) >>)
    \o When(dst # RDX, << push(RDX, Direct) >>)
    \o When(division, << IF signed THEN sign_extend_rax_rdx(size)
                         ELSE alu(size, \h31, RDX, RDX, Direct) >>)
    \o << alu_immediate(size, \hf7, 4 + 2 * Flag(division) + Flag(signed),
                        REGISTER_SCRATCH, 0, Direct) >>
    \o When(dst # RDX, When(alt_dst, << mov("S64", RDX, dst) >>) \o << pop(RDX) >>)
    \o When(dst # RAX, When(~alt_dst, << mov("S64", RAX, dst) >>) \o << pop(RAX) >>)
    \o When(size = "S32" /\ signed /\ ~ExplicitSignExtensionOfResults(p.version),
            << alu("S64", \h63, dst, dst, Direct) >>)

-----------------------------------------------------------------------------
(* Results.                                                                *)

emit_set_exception_kind(kind) ==
    << lea("S64", REGISTER_PTR_TO_VM, Mapped(0), InVm("ProgramResult")),
       store_immediate("S64", Mapped(0), Offset(0), ErrDiscriminant),
       store_immediate("S64", Mapped(0), Offset(8), ErrorKind[kind]) >>
emit_result_is_err(destination) ==
    << lea("S64", REGISTER_PTR_TO_VM, destination, InVm("ProgramResult")),
       cmp_immediate("S64", destination, OkDiscriminant, Offset(0)) >>

-----------------------------------------------------------------------------
(* emit_subroutines: code under an anchor, in the order it is laid out.    *)

\* Mutant: the stack is left as twelve pushes and a return address leave it.
TraceRoutineUnaligned ==
    << push(REGISTER_SCRATCH, Direct) >>
    \o [i \in 1..11 |-> push(Mapped(11 - i), Direct)]
    \o << mov("S64", RSP, Mapped(0)) >>
    \o emit_rust_call(CallConstant(TracePush),
                      PassRegister(1, Mapped(0)) \o PassInVm(0, "RegisterTrace"))
    \o << pop(Mapped(0)), AddTo(RSP, 80), pop(REGISTER_SCRATCH), return_near >>

TraceRoutine ==
    << push(REGISTER_SCRATCH, Direct) >>
    \o [i \in 1..11 |-> push(Mapped(11 - i), Direct)]
    \o << mov("S64", RSP, Mapped(0)), AddTo(RSP, -24) >>
    \o emit_rust_call(CallConstant(TracePush),
                      PassRegister(1, Mapped(0)) \o PassInVm(0, "RegisterTrace"))
    \o << AddTo(RSP, 24), pop(Mapped(0)), AddTo(RSP, 80), pop(REGISTER_SCRATCH), return_near >>

Epilogue(p) ==
    When(p.meter,
         << alu_immediate("S64", \h81, 5, REGISTER_INSTRUCTION_METER, 1, Direct),
            alu("S64", \h29, REGISTER_SCRATCH, REGISTER_INSTRUCTION_METER, Direct),
            alu("S64", \h2b, REGISTER_INSTRUCTION_METER, REGISTER_PTR_TO_VM,
                InVm("PreviousInstructionMeter")),
            alu_immediate("S64", \hf7, 3, REGISTER_INSTRUCTION_METER, 0, Direct),
            store("S64", REGISTER_INSTRUCTION_METER, REGISTER_PTR_TO_VM, InVm("DueInsnCount")) >>)
    \o << load("S64", REGISTER_PTR_TO_VM, RSP, InVm("HostStackPointer")), return_near >>

ExitRoutine(p) ==
    When(p.meter, << AddTo(REGISTER_INSTRUCTION_METER, 1) >>)
    \o << lea("S64", REGISTER_PTR_TO_VM, REGISTER_SCRATCH, InVm("ProgramResult")),
          store("S64", Mapped(0), REGISTER_SCRATCH, Offset(8)),
          alu("S64", \h31, REGISTER_SCRATCH, REGISTER_SCRATCH, Direct),
          JumpTo(ANCHOR_EPILOGUE) >>

ThrowFromStack(kind) ==
    emit_set_exception_kind(kind)
    \o << load("S64", RSP, REGISTER_SCRATCH, OnStack(-8)), JumpTo(ANCHOR_THROW_EXCEPTION) >>
Throw(kind) == emit_set_exception_kind(kind) \o << JumpTo(ANCHOR_THROW_EXCEPTION) >>

ExternalCallRoutine(p) ==
    << push_immediate("S64", -1) >>
    \o When(p.meter, << store("S64", REGISTER_INSTRUCTION_METER, REGISTER_PTR_TO_VM,
                              InVm("DueInsnCount")) >>)
    \o emit_rust_call(CallRegister(REGISTER_SCRATCH), PassRegister(0, REGISTER_PTR_TO_VM))
    \o When(p.meter, << load("S64", REGISTER_PTR_TO_VM, REGISTER_INSTRUCTION_METER,
                             InVm("PreviousInstructionMeter")) >>)
    \o emit_result_is_err(REGISTER_SCRATCH)
    \o << pop(REGISTER_SCRATCH), JumpIf(\h85, ANCHOR_EPILOGUE),
          lea("S64", REGISTER_PTR_TO_VM, REGISTER_SCRATCH, InVm("ProgramResult")),
          load("S64", REGISTER_SCRATCH, Mapped(0), Offset(8)), return_near >>

(* Makes room for the caller's registers between the return address and    *)
(* the stack, then counts the frame.                                       *)
CallPrologue(p) ==
    MeterCheck(p)
    \o << alu_immediate("S64", \h81, 5, RSP, 40, Direct),
          store("S64", REGISTER_SCRATCH, RSP, OnStack(0)),
          load("S64", RSP, REGISTER_SCRATCH, OnStack(40)) >>
    \o [i \in 1..4 |-> store("S64", Mapped(5 + i), RSP, OnStack(8 * (6 - i)))]
    \o << store("S64", Mapped(FramePtr), RSP, OnStack(8)),
          xchg("S64", REGISTER_SCRATCH, RSP, OnStack(0)),
          alu_immediate("S64", \h81, 0, REGISTER_PTR_TO_VM, 1, InVm("CallDepth")),
          cmp_immediate("S32", REGISTER_PTR_TO_VM, MaxCallDepth, InVm("CallDepth")),
          JumpIf(\h83, ANCHOR_CALL_DEPTH_EXCEEDED) >>
    \o When(~ManualStackFrameBump(p.version),
            << AddTo(Mapped(FramePtr),
                     StackFrameSize * (IF HasStackFrameGaps(p.version) /\ StackFrameGaps
                                       THEN 2 ELSE 1)) >>)
    \o << return_near >>

(* From a guest address in the scratch register to its code, through the   *)
(* pc section; the pc of the call is below the return address.             *)
CallRegRoutine(p) ==
    << push(Mapped(0), Direct),
       load_immediate(Mapped(0), TextStart),
       alu("S64", \h29, Mapped(0), REGISTER_SCRATCH, Direct),
       alu_immediate("S64", \h81, 4, REGISTER_SCRATCH, -InsnSize, Direct),
       cmp_immediate("S64", REGISTER_SCRATCH, InsnCount(p) * InsnSize, Direct),
       JumpIf(\h83, ANCHOR_CALL_REG_OUTSIDE_TEXT_SEGMENT),
       alu_immediate("S64", \hc1, 5, REGISTER_SCRATCH, InsnSizeLog, Direct),
       load_immediate(Mapped(0), PcSection),
       load("S32", Mapped(0), Mapped(0), OffsetIndexShift(0, REGISTER_SCRATCH, 2)),
       test_immediate("S32", Mapped(0), Span["S32"] \div 2, Direct),
       JumpIf(\h85, ANCHOR_CALL_REG_UNSUPPORTED_INSTRUCTION),
       alu_immediate("S32", \h81, 4, Mapped(0), I32Max, Direct),
       alu("S64", \h2b, REGISTER_INSTRUCTION_METER, RSP, OnStack(-8)),
       alu_immediate("S64", \h81, 5, REGISTER_INSTRUCTION_METER, 1, Direct),
       alu("S64", \h01, REGISTER_SCRATCH, REGISTER_INSTRUCTION_METER, Direct),
       mov_mmx("S64", REGISTER_SCRATCH, MM0),
       load_immediate(REGISTER_SCRATCH, TextSection),
       alu("S64", \h01, REGISTER_SCRATCH, Mapped(0), Direct),
       mov_mmx("S64", MM0, REGISTER_SCRATCH),
       xchg("S64", Mapped(0), RSP, OnStack(0)),
       return_near >>

TranslateRoutine(p, base, size) ==
    (IF base = 0
     THEN emit_rust_call(CallConstant(LoadFunction(size)),
              PassRegister(2, REGISTER_SCRATCH) \o PassConstant(3, 0)
              \o PassInVm(1, "MemoryMapping") \o PassInVm(0, "ProgramResult"))
     ELSE When(base = 8, << alu_immediate("S64", \h81, 0, RSP, LowerKey(p), OnStack(-80)) >>)
          \o emit_rust_call(CallConstant(StoreFunction(size)),
              PassRegister(3, REGISTER_SCRATCH) \o PassStackWord(2, -8) \o PassConstant(4, 0)
              \o PassInVm(1, "MemoryMapping") \o PassInVm(0, "ProgramResult")))
    \o emit_result_is_err(REGISTER_SCRATCH)
    \o << pop(REGISTER_SCRATCH), xchg("S64", REGISTER_SCRATCH, RSP, OnStack(0)),
          JumpIf(\h85, ANCHOR_THROW_EXCEPTION) >>
    \o When(base = 0, << load("S64", REGISTER_PTR_TO_VM, REGISTER_SCRATCH,
                              SlotInVm("ProgramResult", 8)) >>)
    \o << return_near >>

emit_subroutines(p) ==
    When(p.tracing, << <<ANCHOR_TRACE, TraceRoutine>> >>)
    \o << <<ANCHOR_EPILOGUE, Epilogue(p)>>,
          <<ANCHOR_THROW_EXCEEDED_MAX_INSTRUCTIONS,
            emit_set_exception_kind("ExceededMaxInstructions")
            \o << mov("S64", REGISTER_INSTRUCTION_METER, REGISTER_SCRATCH) >> >>,
          <<ANCHOR_THROW_EXCEPTION_UNCHECKED,
            << store("S64", REGISTER_SCRATCH, REGISTER_PTR_TO_VM, SlotInVm("Registers", 88)),
               JumpTo(ANCHOR_EPILOGUE) >> >>,
          <<ANCHOR_EXIT, ExitRoutine(p)>>,
          <<ANCHOR_THROW_EXCEPTION,
            MeterCheck(p) \o << JumpTo(ANCHOR_THROW_EXCEPTION_UNCHECKED) >> >>,
          <<ANCHOR_CALL_DEPTH_EXCEEDED, Throw("CallDepthExceeded")>>,
          <<ANCHOR_CALL_REG_OUTSIDE_TEXT_SEGMENT, ThrowFromStack("CallOutsideTextSegment")>>,
          <<ANCHOR_DIV_BY_ZERO, Throw("DivideByZero")>>,
          <<ANCHOR_DIV_OVERFLOW, Throw("DivideOverflow")>>,
          <<ANCHOR_CALL_REG_UNSUPPORTED_INSTRUCTION,
            << load("S64", RSP, REGISTER_SCRATCH, OnStack(-8)), pop(Mapped(0)) >> >>,
          <<ANCHOR_CALL_UNSUPPORTED_INSTRUCTION,
            When(p.tracing, << CallTo(ANCHOR_TRACE) >>) \o Throw("UnsupportedInstruction")>>,
          <<ANCHOR_EXTERNAL_FUNCTION_CALL, ExternalCallRoutine(p)>>,
          <<ANCHOR_INTERNAL_FUNCTION_CALL_PROLOGUE, CallPrologue(p)>>,
          <<ANCHOR_INTERNAL_FUNCTION_CALL_REG, CallRegRoutine(p)>> >>
    \o [i \in 1..12 |->
           LET base == 4 * ((i - 1) \div 4)
               size == <<"B", "H", "W", "DW">>[((i - 1) % 4) + 1]
           IN  <<TranslateAnchor(base, size), TranslateRoutine(p, base, size)>>]
-----------------------------------------------------------------------------
(* compile: the code of one instruction, by family.                        *)

(* What the arms that return an error yield.                               *)
Unsupported == << [DEFAULT EXCEPT !.opcode = NoByte] >>
Invalid     == << [DEFAULT EXCEPT !.opcode = NoByte, !.modrm = FALSE] >>

NameIn(table, x) == CHOOSE n \in DOMAIN table : table[n] = x

(* Opcode and extension of the two-operand instructions, extension of the  *)
(* shifts, opcode of the conditional jumps.                                *)
AluCode == [ADD |-> <<\h01, 0>>, SUB |-> <<\h29, 5>>, OR |-> <<\h09, 1>>,
            AND |-> <<\h21, 4>>, XOR |-> <<\h31, 6>>]
ShiftCode == [LSH |-> 4, RSH |-> 5, ARSH |-> 7]
JumpCode ==
    [JEQ |-> \h84, JGT |-> \h87, JGE |-> \h83, JLT |-> \h82, JLE |-> \h86, JSET |-> \h85,
     JNE |-> \h85, JSGT |-> \h8f, JSGE |-> \h8d, JSLT |-> \h8c, JSLE |-> \h8e]

AluSize(opc) == IF Class(opc) = BPF_ALU32_LOAD THEN "S32" ELSE "S64"
SignExtended(p, opc, dst) ==
    When(AluSize(opc) = "S32" /\ ~ExplicitSignExtensionOfResults(p.version),
         << alu("S64", \h63, dst, dst, Direct) >>)

TwoOperand(p, insn, dst, src) ==
    LET size == AluSize(insn.opc)
        name == NameIn(BPF_OP, Operation(insn.opc))
        code == AluCode[name]
    IN  (IF TakesRegister(insn.opc) THEN << alu(size, code[1], src, dst, Direct) >>
         ELSE IF name = "SUB" /\ SwapSubRegImmOperands(p.version)
         THEN << alu_immediate(size, \hf7, 3, dst, 0, Direct) >>
              \o When(insn.imm # 0, emit_sanitized_alu(p, size, \h01, 0, dst, insn.imm))
         ELSE emit_sanitized_alu(p, size, code[1], code[2], dst, insn.imm))
        \o When(name \in {"ADD", "SUB"}, SignExtended(p, insn.opc, dst))

Multiply(p, insn, dst, src) ==
    (IF TakesRegister(insn.opc)
     THEN << alu_escaped(AluSize(insn.opc), 1, \haf, dst, src, Direct) >>
     ELSE LoadUserConstant(p, REGISTER_SCRATCH, insn.imm)
          \o << alu_escaped(AluSize(insn.opc), 1, \haf, dst, REGISTER_SCRATCH, Direct) >>)
    \o SignExtended(p, insn.opc, dst)

(* Division before the PQR class: never signed.                            *)
Divide(p, pc, insn, dst, src) ==
    LET by_reg == TakesRegister(insn.opc)
    IN  emit_product_quotient_remainder(p, pc, AluSize(insn.opc),
            Operation(insn.opc) = BPF_OP["MOD"], TRUE, FALSE,
            IF by_reg THEN src ELSE dst, dst, IF by_reg THEN << >> ELSE << insn.imm >>)

Shift(insn, dst, src) ==
    LET by_reg == TakesRegister(insn.opc)
    IN  emit_shift(AluSize(insn.opc), ShiftCode[NameIn(BPF_OP, Operation(insn.opc))],
                   IF by_reg THEN src ELSE REGISTER_SCRATCH, dst,
                   IF by_reg THEN << >> ELSE << insn.imm >>)

Move(p, insn, dst, src) ==
    LET wide == AluSize(insn.opc) = "S64"
        value == IF wide THEN insn.imm ELSE Low("S32", insn.imm)
    IN  IF TakesRegister(insn.opc)
        THEN << IF wide THEN mov("S64", src, dst)
                ELSE IF ExplicitSignExtensionOfResults(p.version)
                THEN mov_with_sign_extension("S64", src, dst)
                ELSE mov("S32", src, dst) >>
        ELSE IF should_sanitize_constant(p, insn.imm)
             THEN emit_sanitized_load_immediate(p, dst, value)
             ELSE << load_immediate(dst, value) >>

Endian(insn, dst) ==
    LET mask(x) == << alu_immediate("S32", \h81, 4, dst, x, Direct) >>
    IN  IF insn.opc = LE
        THEN CASE insn.imm = 16 -> mask(Span["S16"] - 1)
               [] insn.imm = 32 -> mask(-1)
               [] insn.imm = 64 -> << >>
               [] OTHER -> Invalid
        ELSE CASE insn.imm = 16 -> << bswap("S16", dst) >> \o mask(Span["S16"] - 1)
               [] insn.imm = 32 -> << bswap("S32", dst) >>
               [] insn.imm = 64 -> << bswap("S64", dst) >>
               [] OTHER -> Invalid

(* The PQR class reads its variant from the bits of the opcode.            *)
Pqr(p, pc, insn, dst, src) ==
    LET by_reg == TakesRegister(insn.opc)
        signed == Bit(insn.opc, 7)
    IN  emit_product_quotient_remainder(p, pc, IF Bit(insn.opc, 4) THEN "S64" ELSE "S32",
            Bit(insn.opc, 5), Bit(insn.opc, 6), signed,
            IF by_reg THEN src ELSE dst, dst,
            IF by_reg THEN << >> ELSE << IF signed THEN insn.imm ELSE Low("S32", insn.imm) >>)

Branch(p, pc, insn, dst, src) ==
    LET size == IF Class(insn.opc) = BPF_JMP32 THEN "S32" ELSE "S64"
        name == NameIn(BPF_JUMP, Operation(insn.opc))
        target_pc == pc + insn.off + 1
    IN  IF TakesRegister(insn.opc)
        THEN emit_conditional_branch_reg(p, pc, size, JumpCode[name], name = "JSET", src, dst,
                                         target_pc)
        ELSE emit_conditional_branch_imm(p, pc, size, JumpCode[name], name = "JSET", insn.imm,
                                         dst, target_pc)

(* Calls a syscall, a function, both in turn, or neither.                  *)
CallImm(p, pc, insn) ==
    LET syscall == CallsSyscall(p, insn)
        function == CallsFunction(p, pc, insn)
    IN  When(syscall,
             emit_validate_and_profile_instruction_count(p, pc, 0)
             \o << load_immediate(REGISTER_SCRATCH, SyscallFunction(insn.imm)),
                   CallTo(ANCHOR_EXTERNAL_FUNCTION_CALL) >>
             \o emit_undo_profile_instruction_count(p, pc, 0))
        \o When(function, emit_internal_call_pc(p, pc, CalleeOf(p, pc, insn)))
        \o When(~syscall /\ ~function,
                << load_immediate(REGISTER_SCRATCH, pc),
                   JumpTo(ANCHOR_CALL_UNSUPPORTED_INSTRUCTION) >>)

Exit(p, pc) ==
    emit_validate_and_profile_instruction_count(p, pc, 0)
    \o << cmp_immediate("S32", REGISTER_PTR_TO_VM, 0, InVm("CallDepth")),
          JumpIf(\h84, ANCHOR_EXIT),
          alu_immediate("S64", \h81, 5, REGISTER_PTR_TO_VM, 1, InVm("CallDepth")),
          return_near >>

JumpAlways(p, pc, insn) ==
    emit_validate_and_profile_instruction_count(p, pc, pc + insn.off + 1)
    \o << jump_immediate(relative_to_target_pc(pc + insn.off + 1, 5)) >>

LoadWide(p, pc, dst) ==
    emit_validate_and_profile_instruction_count(p, pc, pc + 2)
    \o LoadUserConstant(p, dst, Wrap(WideImm(p, pc)))

(* The match over opcodes.                                                 *)
JitPqr ==
    Pqr32({"LMUL", "UDIV", "UREM", "SDIV", "SREM"})
    \cup Pqr64({"LMUL", "UHMUL", "SHMUL", "UDIV", "UREM", "SDIV", "SREM"})
CodeOf(p, pc) ==
    LET insn == p.text[pc]
        opc == insn.opc
        v == p.version
        dst == Mapped(insn.dst)
        src == Mapped(insn.src)
    IN  CASE opc = LD_DW_IMM /\ ~DisableLddw(v) -> LoadWide(p, pc, dst)
          [] opc \in Loads(v) -> emit_load(p, pc, dst, src, insn.off, SizeOfLoad(v, opc))
          [] opc \in StoresImm(v) ->
                emit_store_immediate(p, pc, dst, insn.off, SizeOfStoreImm(v, opc), insn.imm)
          [] opc \in StoresReg(v) ->
                emit_store_register(p, pc, dst, insn.off, SizeOfStoreReg(v, opc), src)
          [] opc \in Alu({"ADD", "SUB", "OR", "AND", "XOR"}) -> TwoOperand(p, insn, dst, src)
          [] opc \in Alu({"MUL"}) /\ ~EnablePqr(v) -> Multiply(p, insn, dst, src)
          [] opc \in Alu({"DIV", "MOD"}) /\ ~EnablePqr(v) -> Divide(p, pc, insn, dst, src)
          [] opc \in Alu({"LSH", "RSH", "ARSH"}) -> Shift(insn, dst, src)
          [] opc \in {NEG32, NEG64} /\ ~DisableNeg(v) ->
                << alu_immediate(AluSize(opc), \hf7, 3, dst, 0, Direct) >>
          [] opc \in Alu({"MOV"}) -> Move(p, insn, dst, src)
          [] opc = BE \/ (opc = LE /\ ~DisableLe(v)) -> Endian(insn, dst)
          [] opc = HOR64_IMM /\ DisableLddw(v) ->
                emit_sanitized_alu(p, "S64", \h09, 1, dst, Wrap(Shl("S64", insn.imm, Bits["S32"])))
          [] opc \in JitPqr /\ EnablePqr(v) -> Pqr(p, pc, insn, dst, src)
          [] opc \in Branches(BPF_JMP32) /\ EnableJmp32(v) -> Branch(p, pc, insn, dst, src)
          [] opc \in Branches(BPF_JMP64) -> Branch(p, pc, insn, dst, src)
          [] opc = JA -> JumpAlways(p, pc, insn)
          [] opc = CALL_IMM -> CallImm(p, pc, insn)
          [] opc = CALL_REG -> emit_internal_call_reg(p, pc,
                                   Mapped(IF CallxUsesSrcReg(v) THEN insn.src
                                          ELSE IF CallxUsesDstReg(v) THEN insn.dst ELSE insn.imm))
          [] opc = EXIT -> Exit(p, pc)
          [] OTHER -> Unsupported

-----------------------------------------------------------------------------
(* The layout.  j is the compiler: the offset it has reached, the encoded  *)
(* instruction at each offset, anchors, pc section, forward jumps to       *)
(* resolve, the last pc with a meter check and the noop countdown.         *)

(* emit_ins of the encoded instruction e, with the distance of a relative  *)
(* jump.                                                                   *)
Place(p, j, e) ==
    LET link == e.link
        after == j.offset + Length(e)
        distance(to) == to - (j.offset + link[3])
        forward == link[1] = "pc" /\ link[2] \notin DOMAIN j.pc_section
        placed == CASE link = NoLink \/ forward -> e
                    [] link[1] = "anchor" -> [e EXCEPT !.imm = distance(j.anchors[link[2]])]
                    [] OTHER -> [e EXCEPT !.imm = distance(j.pc_section[link[2]])]
        padded == p.noop_gap # NoNoops /\ j.next_noop = 0
    IN  [j EXCEPT
           !.offset = after + Flag(padded),
           !.code = (j.offset :> placed) @@ (IF padded THEN after :> emit(noop) @@ @ ELSE @),
           !.next_noop = IF p.noop_gap = NoNoops THEN @ ELSE IF padded THEN p.noop_gap ELSE @ - 1,
           !.jumps = IF forward
                     THEN @ \cup {[at |-> j.offset, end |-> j.offset + link[3], target |-> link[2]]}
                     ELSE @]
emit_ins(p, j, ins) == Place(p, j, emit(ins))

(* A sequence of instructions, by halves: the compiler is passed on from   *)
(* the first half to the second unless it has failed.                      *)
RECURSIVE EmitFrom(_, _, _, _, _)
EmitFrom(p, j, code, from, to) ==
    LET middle == (from + to) \div 2
        half == EmitFrom(p, j, code, from, middle)
    IN  CASE from > to -> j
          [] from = to -> emit_ins(p, j, code[from])
          [] OTHER -> IF half.error # "none" THEN half
                      ELSE EmitFrom(p, half, code, middle + 1, to)
EmitAll(p, j, code) == EmitFrom(p, j, code, 1, Len(code))

set_anchor(j, anchor) == [j EXCEPT !.anchors = (anchor :> j.offset) @@ @]

(* JitCompiler::new: room for the code, rounded up to pages.               *)
PageSize == 4096
code_length_estimate(p) ==
    LET n == InsnCount(p)
        plain == MAX_EMPTY_PROGRAM_MACHINE_CODE_LENGTH + MAX_START_PADDING_LENGTH
                 + MAX_MACHINE_CODE_LENGTH_PER_INSTRUCTION * n
        with_noops == plain + (IF p.noop_rate = 0 THEN 0 ELSE plain \div p.noop_rate)
    IN  with_noops + (IF p.checkpoint = 0 THEN 0
                      ELSE (n \div p.checkpoint) * MACHINE_CODE_PER_INSTRUCTION_METER_CHECKPOINT)
TextSectionLength(p) == ((code_length_estimate(p) + PageSize - 1) \div PageSize) * PageSize
Exhausted(p, j) ==
    (j.offset - HostBase) + MAX_MACHINE_CODE_LENGTH_PER_INSTRUCTION * 2 >= TextSectionLength(p)

(* Offsets are numbers of the host, counted from HostBase.                 *)
EmptyText(p) ==
    [offset |-> HostBase + p.padding, code |-> << >>, anchors |-> << >>, pc_section |-> << >>,
     jumps |-> {}, last |-> 0, next_noop |-> p.noop_gap, error |-> "none",
     instruction_bytes |-> << >>, checkpoint_bytes |-> << >>, empty_bytes |-> 0, bumper |-> 0]

RECURSIVE EmitBlocks(_, _, _, _, _)
EmitBlocks(p, j, blocks, from, to) ==
    LET middle == (from + to) \div 2
        half == EmitBlocks(p, j, blocks, from, middle)
    IN  IF from = to THEN EmitAll(p, set_anchor(j, blocks[from][1]), blocks[from][2])
        ELSE IF half.error # "none" THEN half
        ELSE EmitBlocks(p, half, blocks, middle + 1, to)
Emptied(p, j) == [j EXCEPT !.empty_bytes = j.offset - EmptyText(p).offset]
WithBlocks(p, blocks) == Emptied(p, EmitBlocks(p, EmptyText(p), blocks, 1, Len(blocks)))
WithSubroutines(p) == WithBlocks(p, emit_subroutines(p))

(* Whether the code of an instruction leaves its pc as the last one with a *)
(* meter check.                                                            *)
LeavesCheck(p, pc) ==
    LET insn == p.text[pc]
        opc == insn.opc
    IN  \/ opc = CALL_REG \/ (opc = CALL_IMM /\ CallsFunction(p, pc, insn))
        \/ /\ p.meter
           /\ \/ opc \in {LD_DW_IMM, JA, EXIT} \cup InterpreterBranches(p.version)
              \/ opc = CALL_IMM /\ CallsSyscall(p, insn)

TraceCall(p, pc) ==
    When(p.tracing, << load_immediate(REGISTER_SCRATCH, pc), CallTo(ANCHOR_TRACE),
                       load_immediate(REGISTER_SCRATCH, 0) >>)

(* One iteration of the loop: a meter check when one is due, then the code *)
(* of the instruction.                                                     *)
CheckDue(p, j, pc) == j.last + p.checkpoint <= pc
MeterChecked(p, j, pc) ==
    EmitAll(p, [j EXCEPT !.pc_section = (pc :> j.offset) @@ @],
            When(CheckDue(p, j, pc), emit_validate_instruction_count(p, pc)))
Compiled(p, j, pc, checked, done) ==
    [done EXCEPT
        !.last = IF LeavesCheck(p, pc) \/ (CheckDue(p, j, pc) /\ p.meter) THEN pc ELSE @,
        !.checkpoint_bytes = (pc :> checked - j.offset) @@ @,
        !.instruction_bytes = (pc :> done.offset - checked) @@ @]
EmitCode(p, j, pc, checked, code) ==
    CASE code = Unsupported -> [j EXCEPT !.error = "UnsupportedInstruction"]
      [] code = Invalid -> [j EXCEPT !.error = "InvalidInstruction"]
      [] OTHER -> Compiled(p, j, pc, checked.offset, EmitAll(p, checked, TraceCall(p, pc) \o code))
CompileInsn(p, j, pc) ==
    CASE j.error # "none" -> j
      [] j.error = "none" /\ Exhausted(p, j) -> [j EXCEPT !.error = "ExhaustedTextSegment"]
      [] OTHER -> EmitCode(p, j, pc, MeterChecked(p, j, pc), CodeOf(p, pc))

(* The second slot of LD_DW_IMM leads to the handler of unsupported        *)
(* instructions.                                                           *)
IsSecondSlot(p, pc) ==
    pc > 0 /\ p.text[pc-1].opc = LD_DW_IMM /\ ~DisableLddw(p.version)
SkipSlot(j, pc) ==
    [j EXCEPT !.pc_section = (pc :> j.anchors[ANCHOR_CALL_UNSUPPORTED_INSTRUCTION]) @@ @]
RECURSIVE CompileFrom(_, _, _, _)
CompileFrom(p, j, from, to) ==
    LET middle == (from + to) \div 2
        half == CompileFrom(p, j, from, middle)
    IN  IF from = to
        THEN IF IsSecondSlot(p, from) THEN SkipSlot(j, from) ELSE CompileInsn(p, j, from)
        ELSE IF half.error # "none" THEN half
        ELSE CompileFrom(p, half, middle + 1, to)
WithInstructions(p) == CompileFrom(p, WithSubroutines(p), 0, InsnCount(p) - 1)

(* The bumper behind the last instruction.                                 *)
Bumper(p) ==
    LET n == InsnCount(p)
    IN  emit_validate_and_profile_instruction_count(p, n, n + 1)
        \o << load_immediate(REGISTER_SCRATCH, n) >> \o Throw("ExecutionOverrun")

resolve_jumps(j) ==
    LET jump(at) == CHOOSE x \in j.jumps : x.at = at
    IN  [j EXCEPT !.code = [at \in { x.at : x \in j.jumps } |->
            [@[at] EXCEPT !.imm = j.pc_section[jump(at).target] - jump(at).end]] @@ @]

Bumped(j, end) ==
    resolve_jumps([end EXCEPT !.bumper = j.offset, !.empty_bytes = @ + end.offset - j.offset])
Finished(p, j) ==
    CASE j.error # "none" -> j
      [] j.error = "none" /\ Exhausted(p, j) -> [j EXCEPT !.error = "ExhaustedTextSegment"]
      [] OTHER -> Bumped(j, EmitAll(p, j, Bumper(p)))
compile(p) == Finished(p, WithInstructions(p))
=============================================================================
