-------------------------------- MODULE Jit --------------------------------
(***************************************************************************)
(* The JIT compiler (jit.rs) and execute_program running what it emitted.  *)
(* Compiling decides, instruction by instruction, where the emitted code   *)
(* validates the instruction meter; running it executes the emitted code   *)
(* of one instruction per step.  `meter' is REGISTER_INSTRUCTION_METER:    *)
(* not what is left of the budget but the pc up to which it reaches, so    *)
(* straight-line code costs nothing to account for and only branches       *)
(* adjust it.  The host stack holds what a call site pops when the callee  *)
(* returns to it.                                                          *)
(***************************************************************************)
EXTENDS VerifierRules, Sequences

CONSTANTS
    Programs, Budgets, MaxRuns,     \* as in Interpreter
    CheckpointDistance, \* config.instruction_meter_checkpoint_distance
    MeterWord,          \* number of values of the meter (2^64 in the code)
    Dead                \* what Execution shows of a machine that cannot be observed

(* What the compiler takes for granted: accepted programs, and a meter     *)
(* that holds the budget and a pc.                                         *)
JitConfig ==
    /\ \A p \in Programs : IsProgram(p) /\ Accepts(p)
    /\ Budgets \subseteq Nat /\ MaxRuns \in Nat
    /\ CheckpointDistance \in Nat \ {0}
    /\ MeterWord \in Nat
    /\ \A b \in Budgets, p \in Programs : b + p.n < MeterWord

VARIABLES
    program,
    phase, runs,
    \* JitCompiler
    emit_pc,                    \* self.pc
    last_instruction_meter_validation_pc,
    checkpoints,                \* where a checkpoint has been emitted
    \* EbpfVm
    call_depth,
    remaining, previous_instruction_meter, due_insn_count,
    registers11,
    program_result, register_trace, mem,
    \* the emitted code
    pc, meter, reg, host_stack,
    \* execute_program
    initial_insn_count, instruction_count, result,
    \* history
    leftover                    \* the call depth at which the execution began

compilerVars == <<emit_pc, last_instruction_meter_validation_pc, checkpoints>>
meterVars == <<remaining, previous_instruction_meter, due_insn_count>>
callVars == <<call_depth, host_stack>>
returnVars == <<leftover, initial_insn_count, instruction_count, result>>
vars == <<program, phase, runs, compilerVars, callVars, meterVars, registers11,
          program_result, register_trace, mem, pc, meter, reg, returnVars>>

Wrap(x) == x % MeterWord

SaturatingSub(a, b) == IF a < b THEN 0 ELSE a - b

StartRegisters ==
    [r \in Registers |-> IF r = FP THEN InitialFramePointer(program.version) ELSE 0]

(* Instructions whose code starts by validating the meter.                 *)
ValidatesMeter(p, at) ==
    LET insn == p.text[at]
    IN  \/ insn.op \in {"LD_DW_IMM", "JA", "JEQ", "CALL_REG", "EXIT"}
        \/ insn.op = "CALL_IMM" /\ (\/ ResolvesToSyscall(p, insn)
                                    \/ ResolvesToFunction(p, at, insn))

-----------------------------------------------------------------------------
(* JitCompiler::new and EbpfVm::new                                        *)
New ==
    /\ phase = "compiling" /\ runs = 0
    /\ emit_pc = 0 /\ last_instruction_meter_validation_pc = 0 /\ checkpoints = {}
    /\ call_depth = 0 /\ host_stack = << >>
    /\ remaining = 0 /\ previous_instruction_meter = 0 /\ due_insn_count = 0
    /\ registers11 = 0
    /\ program_result = Ok(0)
    /\ register_trace = << >>
    /\ mem = 0
    /\ pc = 0 /\ meter = 0 /\ reg = StartRegisters
    /\ initial_insn_count = 0 /\ instruction_count = 0 /\ result = Ok(0)
    /\ leftover = 0

Init == program \in Programs /\ New

(* Mutant: the distance to the last validation is off by one.              *)
EmitInstructionLate ==
    /\ phase = "compiling" /\ emit_pc < program.n
    /\ LET due == last_instruction_meter_validation_pc + CheckpointDistance < emit_pc
       IN  /\ checkpoints' = IF due THEN checkpoints \cup {emit_pc} ELSE checkpoints
           /\ last_instruction_meter_validation_pc' =
                 IF due \/ ValidatesMeter(program, emit_pc)
                 THEN emit_pc ELSE last_instruction_meter_validation_pc
    /\ emit_pc' = emit_pc + Width(program, emit_pc)
    /\ UNCHANGED <<program, phase, runs, callVars, meterVars, registers11,
                   program_result, register_trace, mem, pc, meter, reg, returnVars>>

(* One turn of the loop of compile: a checkpoint if the last validation is *)
(* too far back, then the code of the instruction.                         *)
EmitInstruction ==
    /\ phase = "compiling" /\ emit_pc < program.n
    /\ LET due == last_instruction_meter_validation_pc + CheckpointDistance <= emit_pc
       IN  /\ checkpoints' = IF due THEN checkpoints \cup {emit_pc} ELSE checkpoints
           /\ last_instruction_meter_validation_pc' =
                 IF due \/ ValidatesMeter(program, emit_pc)
                 THEN emit_pc ELSE last_instruction_meter_validation_pc
    /\ emit_pc' = emit_pc + Width(program, emit_pc)
    /\ UNCHANGED <<program, phase, runs, callVars, meterVars, registers11,
                   program_result, register_trace, mem, pc, meter, reg, returnVars>>

(* The bumper behind the last instruction, then the program is sealed.     *)
EmitBumper ==
    /\ phase = "compiling" /\ emit_pc >= program.n
    /\ last_instruction_meter_validation_pc' = emit_pc
    /\ phase' = "idle"
    /\ UNCHANGED <<program, runs, emit_pc, checkpoints, callVars, meterVars,
                   registers11, program_result, register_trace, mem, pc, meter, reg,
                   returnVars>>

(* The host grants a budget and calls execute_program: everything up to    *)
(* the first emitted instruction.  call_depth stays as it was.             *)
ExecuteProgram(budget) ==
    /\ phase \in {"idle", "done"}
    /\ runs < MaxRuns
    /\ leftover' = call_depth
    /\ remaining' = budget
    /\ initial_insn_count' = budget
    /\ previous_instruction_meter' = budget
    /\ due_insn_count' = 0
    /\ registers11' = program.entry
    /\ program_result' = Ok(0)
    /\ reg' = StartRegisters /\ pc' = program.entry
    /\ meter' = Wrap(budget + program.entry)
    /\ phase' = "running" /\ runs' = runs + 1
    /\ UNCHANGED <<program, compilerVars, callVars, register_trace, mem,
                   instruction_count, result>>

-----------------------------------------------------------------------------
(* The subroutines all emitted code shares.                                *)

Profile(m, at, target) == Wrap(m + target - (at + 1))
UndoProfile(m, at, target) == Wrap(m + (at + 1) - target)

(* Mutant: an exception is reported whether or not the budget covers it.   *)
ThrowExceptionUnmetered(e, m, at) ==
    /\ program_result' = Err(e)
    /\ registers11' = at
    /\ due_insn_count' = Wrap(previous_instruction_meter' - (m - 1 - at))
    /\ phase' = "stopped"

(* ANCHOR_EPILOGUE, with the meter m and REGISTER_SCRATCH.                 *)
Epilogue(m, scratch) ==
    /\ due_insn_count' = Wrap(previous_instruction_meter' - (m - 1 - scratch))
    /\ phase' = "stopped"

(* ANCHOR_THROW_EXCEEDED_MAX_INSTRUCTIONS                                  *)
ThrowExceeded(m) ==
    /\ program_result' = Err("ExceededMaxInstructions")
    /\ registers11' = m
    /\ Epilogue(m, m)

(* ANCHOR_THROW_EXCEPTION: an exception past the budget is not reported.   *)
ThrowException(e, m, at) ==
    IF m <= at THEN ThrowExceeded(m)
    ELSE /\ program_result' = Err(e)
         /\ registers11' = at
         /\ Epilogue(m, at)

GoOn(to, m) ==
    /\ pc' = to /\ meter' = m
    /\ UNCHANGED <<phase, due_insn_count, registers11>>

insn == program.text[pc]

Trace(at) == register_trace' = Append(register_trace, [pc |-> at, reg |-> reg])

KeepsMeter == UNCHANGED <<remaining, previous_instruction_meter>>

(* A validation that fails, at a checkpoint or in an instruction's code.   *)
RunExceeded ==
    /\ phase = "running" /\ pc < program.n
    /\ meter <= pc
    /\ \/ pc \in checkpoints /\ UNCHANGED register_trace
       \/ pc \notin checkpoints /\ ValidatesMeter(program, pc) /\ Trace(pc)
    /\ KeepsMeter /\ ThrowExceeded(meter)
    /\ UNCHANGED <<program, runs, compilerVars, callVars, mem, pc, meter, reg, returnVars>>

(* The bumper.                                                             *)
RunBumper ==
    /\ phase = "running" /\ pc >= program.n
    /\ KeepsMeter
    /\ IF meter <= pc THEN ThrowExceeded(meter)
       ELSE ThrowException("ExecutionOverrun", Profile(meter, pc, pc + 1), pc)
    /\ UNCHANGED <<program, runs, compilerVars, callVars, register_trace, mem, pc, meter,
                   reg, returnVars>>

(* What comes before the code of an instruction that gets executed.        *)
Fetch ==
    /\ phase = "running" /\ pc < program.n
    /\ pc \in checkpoints \/ ValidatesMeter(program, pc) => meter > pc
    /\ UNCHANGED <<program, runs, compilerVars, returnVars>>

(* A byte swap of a bad width would have ended the compilation.            *)
RunArithmetic ==
    /\ Fetch /\ Trace(pc) /\ KeepsMeter
    /\ insn.op \in ArithOps
    /\ reg' = RegistersAfter(insn, reg, mem)
    /\ GoOn(pc + 1, meter)
    /\ UNCHANGED <<callVars, program_result, mem>>

(* emit_product_quotient_remainder, ANCHOR_DIV_BY_ZERO, ANCHOR_DIV_OVERFLOW *)
RunQuotient ==
    /\ Fetch /\ Trace(pc) /\ KeepsMeter
    /\ insn.op \in {"DIV_IMM", "DIV_REG", "SDIV_REG"} /\ IsDataOp(program, insn)
    /\ IF Fault(insn, reg) # "none"
       THEN ThrowException(Fault(insn, reg), meter, pc) /\ UNCHANGED <<reg, pc, meter>>
       ELSE /\ reg' = RegistersAfter(insn, reg, mem)
            /\ GoOn(pc + 1, meter)
            /\ UNCHANGED program_result
    /\ UNCHANGED <<callVars, mem>>

(* ANCHOR_TRANSLATE_MEMORY_ADDRESS: MemoryMapping::load and store leave    *)
(* their result, the value or the address stored at, in program_result.    *)
TranslateMemoryAddress ==
    IF Fault(insn, reg) # "none"
    THEN ThrowException(Fault(insn, reg), meter, pc) /\ UNCHANGED <<mem, reg, pc, meter>>
    ELSE /\ reg' = RegistersAfter(insn, reg, mem)
         /\ mem' = MemoryAfter(insn, reg, mem)
         /\ GoOn(pc + 1, meter)
         /\ program_result' = Ok(IF insn.op = "LDX" THEN mem
                                 ELSE WrappingAdd(reg[insn.dst], insn.off))

RunLoadStore ==
    /\ Fetch /\ Trace(pc) /\ KeepsMeter
    /\ insn.op \in {"LDX", "ST"}
    /\ TranslateMemoryAddress
    /\ UNCHANGED callVars

RunLoadDoubleWord ==
    /\ Fetch /\ Trace(pc) /\ KeepsMeter
    /\ insn.op = "LD_DW_IMM"
    /\ reg' = [reg EXCEPT ![insn.dst] = Arith(insn.op, @, insn.imm)]
    /\ GoOn(pc + 2, Profile(meter, pc, pc + 2))
    /\ UNCHANGED <<callVars, program_result, mem>>

(* Mutant: the account of a jump that is not taken is not undone.          *)
RunJumpNoUndo ==
    /\ Fetch /\ Trace(pc) /\ KeepsMeter
    /\ insn.op \in {"JA", "JEQ"}
    /\ LET target == JumpTarget(pc, insn)
       IN  GoOn(IF BranchTaken(insn, reg) THEN target ELSE pc + 1,
                Profile(meter, pc, target))
    /\ UNCHANGED <<callVars, program_result, mem, reg>>

(* A conditional jump is accounted for as taken, which is undone behind it. *)
RunJump ==
    /\ Fetch /\ Trace(pc) /\ KeepsMeter
    /\ insn.op \in {"JA", "JEQ"}
    /\ LET target == JumpTarget(pc, insn)
           m == Profile(meter, pc, target)
       IN  IF BranchTaken(insn, reg) THEN GoOn(target, m)
           ELSE GoOn(pc + 1, UndoProfile(m, pc, target))
    /\ UNCHANGED <<callVars, program_result, mem, reg>>

(* ANCHOR_INTERNAL_FUNCTION_CALL_PROLOGUE, then the transfer to target:    *)
(* m, r, res and due are the meter, the registers, program_result and      *)
(* due_insn_count at this point.                                           *)
InternalCall(m, r, res, due, target) ==
    IF m <= pc
    THEN ThrowExceeded(m) /\ reg' = r /\ UNCHANGED <<callVars, pc, meter>>
    ELSE /\ host_stack' = Append(host_stack, [call_pc |-> pc, r6 |-> r[R6], fp |-> r[FP]])
         /\ call_depth' = call_depth + 1
         /\ IF call_depth + 1 >= MaxCallDepth
            THEN /\ ThrowException("CallDepthExceeded", m, pc)
                 /\ reg' = r /\ UNCHANGED <<pc, meter>>
            ELSE /\ reg' = [r EXCEPT ![FP] = WrappingAdd(@, FrameBump(program.version))]
                 /\ IF target < program.n
                    THEN /\ pc' = target /\ meter' = Profile(m, pc, target)
                         /\ program_result' = res /\ due_insn_count' = due
                         /\ UNCHANGED <<phase, registers11>>
                    ELSE /\ ThrowException("CallOutsideTextSegment", m, pc)
                         /\ UNCHANGED <<pc, meter>>

RunCallReg ==
    /\ Fetch /\ Trace(pc) /\ KeepsMeter
    /\ insn.op = "CALL_REG"
    /\ InternalCall(meter, reg, program_result, due_insn_count,
                    CallxTarget(reg[CallxRegister(program, insn)]))
    /\ UNCHANGED mem

(* ANCHOR_EXTERNAL_FUNCTION_CALL and the adapter of                        *)
(* declare_builtin_function!, then the internal call the same key may name. *)
RunSyscall ==
    /\ Fetch /\ Trace(pc)
    /\ insn.op = "CALL_IMM" /\ ResolvesToSyscall(program, insn)
    /\ LET due == Profile(meter, pc, 0)
           settled == SaturatingSub(remaining, previous_instruction_meter - due)
           m == UndoProfile(remaining', pc, 0)
           r == [reg EXCEPT ![R0] = SyscallValue(reg[R1])]
       IN  /\ remaining' = SaturatingSub(settled, SyscallCost(reg[R1]))
           /\ previous_instruction_meter' = remaining'
           /\ IF SyscallFails(reg[R1])
              THEN /\ program_result' = Err("SyscallError")
                   /\ phase' = "stopped"
                   /\ due_insn_count' = 0
                   /\ UNCHANGED <<callVars, registers11, reg, pc, meter>>
              ELSE IF ResolvesToFunction(program, pc, insn)
              THEN InternalCall(m, r, Ok(r[R0]), due, CallTarget(program, pc, insn))
              ELSE /\ pc' = pc + 1 /\ meter' = m /\ reg' = r
                   /\ program_result' = Ok(r[R0]) /\ due_insn_count' = due
                   /\ UNCHANGED <<callVars, phase, registers11>>
    /\ UNCHANGED mem

RunCallImm ==
    /\ Fetch /\ KeepsMeter
    /\ insn.op = "CALL_IMM" /\ ~ResolvesToSyscall(program, insn)
    /\ IF ResolvesToFunction(program, pc, insn)
       THEN /\ Trace(pc)
            /\ InternalCall(meter, reg, program_result, due_insn_count,
                            CallTarget(program, pc, insn))
       ELSE /\ register_trace' = register_trace \o
                  << [pc |-> pc, reg |-> reg], [pc |-> pc, reg |-> reg] >>
            /\ ThrowException("UnsupportedInstruction", meter, pc)
            /\ UNCHANGED <<callVars, reg, pc, meter>>
    /\ UNCHANGED mem

(* Mutant: the return does not give its level of the call depth back.      *)
RunExitKeepsDepth ==
    /\ Fetch /\ Trace(pc) /\ KeepsMeter
    /\ insn.op = "EXIT"
    /\ LET m == Profile(meter, pc, 0)
           top == host_stack[Len(host_stack)]
       IN  IF call_depth = 0
           THEN /\ program_result' = Ok(reg[R0])
                /\ Epilogue(m + 1, 0)
                /\ UNCHANGED <<callVars, reg, pc, meter, registers11>>
           ELSE /\ host_stack' = SubSeq(host_stack, 1, Len(host_stack) - 1)
                /\ reg' = [reg EXCEPT ![R6] = top.r6, ![FP] = top.fp]
                /\ GoOn(top.call_pc + 1, UndoProfile(m, top.call_pc, 0))
                /\ UNCHANGED <<call_depth, program_result>>
    /\ UNCHANGED mem

(* Counts as a jump to 0, which the call site undoes.  Without a call to   *)
(* return to, but at a depth left by an earlier execution, the emitted     *)
(* code returns to execute_program and bypasses the epilogue.              *)
RunExit ==
    /\ Fetch /\ Trace(pc) /\ KeepsMeter
    /\ insn.op = "EXIT"
    /\ LET m == Profile(meter, pc, 0)
           top == host_stack[Len(host_stack)]
       IN  IF call_depth = 0
           THEN /\ program_result' = Ok(reg[R0])
                /\ Epilogue(m + 1, 0)
                /\ UNCHANGED <<callVars, reg, pc, meter, registers11>>
           ELSE IF host_stack = << >>
           THEN /\ call_depth' = call_depth - 1
                /\ phase' = "stopped"
                /\ UNCHANGED <<host_stack, program_result, due_insn_count,
                               registers11, reg, pc, meter>>
           ELSE /\ call_depth' = call_depth - 1
                /\ host_stack' = SubSeq(host_stack, 1, Len(host_stack) - 1)
                /\ reg' = [reg EXCEPT ![R6] = top.r6, ![FP] = top.fp]
                /\ GoOn(top.call_pc + 1, UndoProfile(m, top.call_pc, 0))
                /\ UNCHANGED program_result
    /\ UNCHANGED mem

(* The second slot of a lddw, which only callx can reach.                  *)
RunUnsupported ==
    /\ Fetch /\ Trace(pc) /\ KeepsMeter
    /\ IsUnsupported(program, insn)
    /\ ThrowException("UnsupportedInstruction", meter, pc)
    /\ UNCHANGED <<callVars, reg, pc, meter, mem>>

-----------------------------------------------------------------------------
(* What execute_program does once the emitted code has returned.           *)
Finish ==
    /\ phase = "stopped"
    /\ remaining' = SaturatingSub(remaining, due_insn_count)
    /\ instruction_count' = SaturatingSub(initial_insn_count, remaining')
    /\ result' = program_result
    /\ program_result' = Ok(0)
    /\ phase' = "done"
    /\ host_stack' = << >> \* the epilogue restores the stack pointer
    /\ UNCHANGED <<program, runs, compilerVars, call_depth, previous_instruction_meter,
                   due_insn_count, registers11, register_trace, mem, pc, meter, reg,
                   leftover, initial_insn_count>>

Compile == EmitInstruction \/ EmitBumper

Run == \/ RunExceeded \/ RunBumper \/ RunArithmetic \/ RunQuotient
       \/ RunLoadStore \/ RunLoadDoubleWord \/ RunJump
       \/ RunCallReg \/ RunSyscall \/ RunCallImm \/ RunExit \/ RunUnsupported

Next == Compile \/ (\E budget \in Budgets : ExecuteProgram(budget)) \/ Run \/ Finish

(* The thread that compiles, or that called execute_program, keeps running. *)
Spec == Init /\ [][Next]_vars /\ WF_vars(Compile \/ Run \/ Finish)

-----------------------------------------------------------------------------
(* Properties.                                                             *)

(* Straight-line code may run past the budget, but a validation comes      *)
(* before it has executed more than CheckpointDistance instructions that   *)
(* the budget does not cover, wherever a jump entered the code.            *)
OverrunBounded ==
    phase = "running" => pc <= meter + CheckpointDistance

(* The emitted code does not look at the host stack to see whether EXIT    *)
(* returns to a call: call_depth counts the frames it has pushed, and on   *)
(* top of them the calls that an earlier execution left.                   *)
HostStackMatchesDepth == phase = "running" => call_depth = leftover + Len(host_stack)

-----------------------------------------------------------------------------
(* The emitted code implements Execution.  Past the budget the machine     *)
(* waits at the instruction it could not pay for, whose pc is the meter.   *)

(* What is left of the budget, and what of the machine can be observed.    *)
Left == CASE phase = "running" -> SaturatingSub(meter, pc)
          [] phase = "stopped" -> SaturatingSub(remaining, due_insn_count)
          [] OTHER -> remaining
Observable(x) == IF phase = "running" /\ Left > 0 THEN x ELSE Dead

ShownPc == IF phase # "running" THEN program.entry
           ELSE IF meter <= pc THEN meter ELSE pc

Machine == INSTANCE Execution WITH
    running  <- phase = "running",
    pc       <- ShownPc,
    reg      <- Observable(reg),
    mem      <- IF phase = "running" /\ Left = 0 THEN Dead ELSE mem,
    frames   <- Observable([i \in 1..Len(host_stack) |->
                               [r6 |-> host_stack[i].r6, fp |-> host_stack[i].fp,
                                target_pc |-> host_stack[i].call_pc + 1]]),
    left     <- Left,
    result   <- IF phase = "stopped" THEN program_result ELSE result,
    final_pc <- registers11

(* In an execution that begins without calls of an earlier one every step  *)
(* of the emitted code is a step of the abstract machine or leaves it      *)
(* unchanged: costs, results, final pc and memory are its.                 *)
JitImplementsExecution ==
    Machine!Init /\ [][leftover' = 0 => Machine!Next \/ UNCHANGED Machine!vars]_vars

=============================================================================
