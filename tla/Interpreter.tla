---------------------------- MODULE Interpreter ----------------------------
(***************************************************************************)
(* EbpfVm::execute_program with the interpreter (vm.rs, interpreter.rs):   *)
(* one action per kind of instruction that Interpreter::step executes, one *)
(* for each way a step ends before it executes one, and the code of        *)
(* execute_program before and after the loop over step.  A VM may execute  *)
(* its program again, after an error too: execute_program then starts at   *)
(* the call depth the error left, for only EXIT ever lowers it.            *)
(***************************************************************************)
EXTENDS VerifierRules, Sequences

CONSTANTS
    Programs,   \* the programs the VM may be given
    Budgets,    \* what the context object may grant one execution
    MaxRuns,    \* bound on the executions of one VM
    Dead        \* what Execution shows of a machine that cannot be observed

ASSUME ProgramsAssumption ==
    /\ \A p \in Programs : IsProgram(p) /\ Accepts(p)
    /\ Budgets \subseteq Nat
    /\ MaxRuns \in Nat

VARIABLES
    program,                    \* the Executable
    phase,                      \* where execute_program is
    runs,                       \* how many executions have been started
    \* EbpfVm
    call_depth, call_frames,
    remaining,                  \* context_object_pointer.get_remaining()
    previous_instruction_meter, due_insn_count,
    registers, registers11,     \* vm.registers, and its last element
    program_result,
    register_trace,
    mem,                        \* the memory behind memory_mapping
    \* Interpreter
    reg, pc,                    \* its own registers; pc is reg[11]
    \* execute_program
    initial_insn_count,
    instruction_count, result,  \* the pair it returns
    \* history
    leftover                    \* the call depth at which the execution began

meterVars == <<remaining, previous_instruction_meter, due_insn_count>>
frameVars == <<call_depth, call_frames>>
returnVars == <<leftover, initial_insn_count, instruction_count, result>>
vars == <<program, phase, runs, meterVars, frameVars, registers, registers11,
          program_result, register_trace, mem, reg, pc, returnVars>>

DefaultFrame == [r6 |-> 0, fp |-> 0, target_pc |-> 0]

SaturatingSub(a, b) == IF a < b THEN 0 ELSE a - b

(* EbpfVm::new                                                             *)
Init ==
    /\ program \in Programs
    /\ phase = "idle" /\ runs = 0
    /\ call_depth = 0
    /\ call_frames = [i \in 0..MaxCallDepth-1 |-> DefaultFrame]
    /\ remaining = 0 /\ previous_instruction_meter = 0 /\ due_insn_count = 0
    /\ registers = [r \in Registers |->
                      IF r = FP THEN InitialFramePointer(program.version) ELSE 0]
    /\ registers11 = 0
    /\ program_result = Ok(0)
    /\ register_trace = << >>
    /\ mem = 0
    /\ reg = registers /\ pc = 0
    /\ initial_insn_count = 0 /\ instruction_count = 0 /\ result = Ok(0)
    /\ leftover = 0

(* The host grants a budget and calls execute_program: everything up to    *)
(* the first step.  call_depth and call_frames stay as they were.          *)
ExecuteProgram(budget) ==
    /\ phase \in {"idle", "done"}
    /\ runs < MaxRuns
    /\ leftover' = call_depth
    /\ remaining' = budget
    /\ initial_insn_count' = budget
    /\ previous_instruction_meter' = budget
    /\ due_insn_count' = 0
    /\ registers11' = program.entry
    /\ program_result' = Ok(0)
    /\ reg' = registers /\ pc' = program.entry
    /\ phase' = "running" /\ runs' = runs + 1
    /\ UNCHANGED <<program, frameVars, registers, register_trace, mem,
                   instruction_count, result>>

-----------------------------------------------------------------------------
(* Interpreter::step                                                       *)

(* throw_error!                                                            *)
ThrowError(e) ==
    /\ registers11' = pc
    /\ program_result' = Err(e)
    /\ phase' = "stopped"

GoOn(next_pc) ==
    /\ pc' = next_pc
    /\ UNCHANGED <<phase, registers11>>

(* Mutant: the test of the meter is off by one.                            *)
StepExceededLate ==
    /\ phase = "running"
    /\ due_insn_count > previous_instruction_meter
    /\ ThrowError("ExceededMaxInstructions")
    /\ UNCHANGED <<program, runs, meterVars, frameVars, registers,
                   register_trace, mem, reg, pc, returnVars>>

StepExceeded ==
    /\ phase = "running"
    /\ due_insn_count >= previous_instruction_meter
    /\ ThrowError("ExceededMaxInstructions")
    /\ UNCHANGED <<program, runs, meterVars, frameVars, registers,
                   register_trace, mem, reg, pc, returnVars>>

StepOverrun ==
    /\ phase = "running"
    /\ due_insn_count < previous_instruction_meter
    /\ pc >= program.n
    /\ due_insn_count' = due_insn_count + 1
    /\ ThrowError("ExecutionOverrun")
    /\ UNCHANGED <<program, runs, remaining, previous_instruction_meter, frameVars,
                   registers, register_trace, mem, reg, pc, returnVars>>

(* What comes before the match on the opcode, for a step that gets there.  *)
insn == program.text[pc]

Fetch ==
    /\ phase = "running"
    /\ due_insn_count < previous_instruction_meter
    /\ pc < program.n
    /\ register_trace' = Append(register_trace, [pc |-> pc, reg |-> reg])
    /\ UNCHANGED <<program, runs, returnVars>>

Charge ==
    /\ due_insn_count' = due_insn_count + 1
    /\ UNCHANGED <<remaining, previous_instruction_meter, registers>>

StepData ==
    /\ Fetch /\ Charge
    /\ IsDataOp(program, insn)
    /\ IF Fault(insn, reg) # "none"
       THEN ThrowError(Fault(insn, reg)) /\ UNCHANGED <<mem, reg, pc>>
       ELSE /\ reg' = RegistersAfter(insn, reg, mem)
            /\ mem' = MemoryAfter(insn, reg, mem)
            /\ GoOn(pc + 1)
            /\ UNCHANGED program_result
    /\ UNCHANGED frameVars

StepLoadDoubleWord ==
    /\ Fetch /\ Charge
    /\ insn.op = "LD_DW_IMM" /\ ~DisableLddw(program.version)
    /\ reg' = [reg EXCEPT ![insn.dst] = Arith(insn.op, @, insn.imm)]
    /\ GoOn(pc + 2)
    /\ UNCHANGED <<frameVars, program_result, mem>>

StepJump ==
    /\ Fetch /\ Charge
    /\ insn.op \in {"JA", "JEQ"}
    /\ GoOn(IF BranchTaken(insn, reg) THEN JumpTarget(pc, insn) ELSE pc + 1)
    /\ UNCHANGED <<frameVars, program_result, mem, reg>>

(* Mutants of the call: no check_pc!, and the saved registers of the       *)
(* caller's frame overwritten.                                              *)
PushFrameUnchecked(r, target, res) ==
    /\ call_frames' = [call_frames EXCEPT ![call_depth] =
                          [r6 |-> r[R6], fp |-> r[FP], target_pc |-> pc + 1]]
    /\ call_depth' = call_depth + 1
    /\ IF call_depth + 1 = MaxCallDepth
       THEN ThrowError("CallDepthExceeded") /\ reg' = r /\ UNCHANGED pc
       ELSE /\ reg' = [r EXCEPT ![FP] = WrappingAdd(@, FrameBump(program.version))]
            /\ GoOn(target) /\ program_result' = res
    /\ UNCHANGED mem

PushFrameClobbering(r, target, res) ==
    /\ call_frames' = [call_frames EXCEPT
            ![call_depth] = [r6 |-> r[R6], fp |-> r[FP], target_pc |-> pc + 1],
            ![SaturatingSub(call_depth, 1)].r6 = r[R6]]
    /\ call_depth' = call_depth + 1
    /\ IF call_depth + 1 = MaxCallDepth
       THEN ThrowError("CallDepthExceeded") /\ reg' = r /\ UNCHANGED pc
       ELSE /\ reg' = [r EXCEPT ![FP] = WrappingAdd(@, FrameBump(program.version))]
            /\ IF IsPcInProgram(program, target)
               THEN GoOn(target) /\ program_result' = res
               ELSE ThrowError("CallOutsideTextSegment") /\ UNCHANGED pc
    /\ UNCHANGED mem

(* push_frame followed by check_pc!; r are the registers at the call and   *)
(* res is program_result at that point.                                    *)
PushFrame(r, target, res) ==
    /\ call_frames' = [call_frames EXCEPT ![call_depth] =
                          [r6 |-> r[R6], fp |-> r[FP], target_pc |-> pc + 1]]
    /\ call_depth' = call_depth + 1
    /\ IF call_depth + 1 = MaxCallDepth
       THEN ThrowError("CallDepthExceeded") /\ reg' = r /\ UNCHANGED pc
       ELSE /\ reg' = [r EXCEPT ![FP] = WrappingAdd(@, FrameBump(program.version))]
            /\ IF IsPcInProgram(program, target)
               THEN GoOn(target) /\ program_result' = res
               ELSE ThrowError("CallOutsideTextSegment") /\ UNCHANGED pc
    /\ UNCHANGED mem

(* push_frame indexes call_frames with call_depth before it compares it.   *)
CallFunction(r, target, res) ==
    IF call_depth < MaxCallDepth THEN PushFrame(r, target, res)
    ELSE /\ phase' = "panicked"
         /\ reg' = r /\ program_result' = res
         /\ UNCHANGED <<frameVars, registers11, mem, pc>>

StepCallReg ==
    /\ Fetch /\ Charge
    /\ insn.op = "CALL_REG"
    /\ CallFunction(reg, CallxTarget(reg[CallxRegister(program, insn)]), program_result)

(* Mutants of the syscall: due_insn_count is not reset; what is due is not *)
(* consumed before the syscall runs.                                       *)
DispatchSyscallNoReset ==
    /\ remaining' = SaturatingSub(SaturatingSub(remaining, due_insn_count + 1),
                                  SyscallCost(reg[R1]))
    /\ previous_instruction_meter' = remaining'
    /\ due_insn_count' = due_insn_count + 1
    /\ registers' = [registers EXCEPT ![R0] = reg[R0], ![R1] = reg[R1]]

DispatchSyscallUnsettled ==
    /\ remaining' = SaturatingSub(remaining, SyscallCost(reg[R1]))
    /\ previous_instruction_meter' = remaining'
    /\ due_insn_count' = 0
    /\ registers' = [registers EXCEPT ![R0] = reg[R0], ![R1] = reg[R1]]

(* dispatch_syscall and the adapter of declare_builtin_function!: settles  *)
(* what is due, lets the syscall consume, and starts counting from zero.   *)
DispatchSyscall ==
    LET outstanding == previous_instruction_meter - (due_insn_count + 1)
        settled == SaturatingSub(remaining, previous_instruction_meter - outstanding)
    IN  /\ remaining' = SaturatingSub(settled, SyscallCost(reg[R1]))
        /\ previous_instruction_meter' = remaining'
        /\ due_insn_count' = 0
        /\ registers' = [registers EXCEPT ![R0] = reg[R0], ![R1] = reg[R1]]

StepCallImm ==
    /\ Fetch
    /\ insn.op = "CALL_IMM"
    /\ LET sys == ResolvesToSyscall(program, insn)
           fn  == ResolvesToFunction(program, pc, insn)
           target == CallTarget(program, pc, insn)
           value == SyscallValue(reg[R1])
           r == IF sys THEN [reg EXCEPT ![R0] = value] ELSE reg
           res == IF sys THEN Ok(value) ELSE program_result
       IN  /\ IF sys THEN DispatchSyscall ELSE Charge
           /\ IF sys /\ SyscallFails(reg[R1])
              THEN /\ program_result' = Err("SyscallError")
                   /\ phase' = "stopped"
                   /\ UNCHANGED <<frameVars, registers11, mem, reg, pc>>
              ELSE IF fn THEN CallFunction(r, target, res)
              ELSE IF sys
              THEN /\ reg' = r /\ program_result' = res
                   /\ GoOn(pc + 1) /\ UNCHANGED <<frameVars, mem>>
              ELSE /\ ThrowError("UnsupportedInstruction")
                   /\ UNCHANGED <<frameVars, mem, reg, pc>>

(* Mutants of the return: the frame pointer is not restored; the outermost *)
(* call is taken for the entrypoint.                                       *)
StepExitKeepsFp ==
    /\ Fetch /\ Charge
    /\ insn.op = "EXIT"
    /\ IF call_depth = 0
       THEN /\ program_result' = Ok(reg[R0])
            /\ phase' = "stopped"
            /\ UNCHANGED <<registers11, call_depth, reg, pc>>
       ELSE LET frame == call_frames[call_depth - 1]
            IN  /\ call_depth' = call_depth - 1
                /\ reg' = [reg EXCEPT ![R6] = frame.r6]
                /\ IF IsPcInProgram(program, frame.target_pc)
                   THEN GoOn(frame.target_pc) /\ UNCHANGED program_result
                   ELSE ThrowError("CallOutsideTextSegment") /\ UNCHANGED pc
    /\ UNCHANGED <<call_frames, mem>>

StepExit ==
    /\ Fetch /\ Charge
    /\ insn.op = "EXIT"
    /\ IF call_depth = 0
       THEN /\ IF due_insn_count + 1 > previous_instruction_meter
               THEN ThrowError("ExceededMaxInstructions")
               ELSE /\ program_result' = Ok(reg[R0])
                    /\ phase' = "stopped" /\ UNCHANGED registers11
            /\ UNCHANGED <<call_depth, reg, pc>>
       ELSE LET frame == call_frames[call_depth - 1]
            IN  /\ call_depth' = call_depth - 1
                /\ reg' = [reg EXCEPT ![R6] = frame.r6, ![FP] = frame.fp]
                /\ IF IsPcInProgram(program, frame.target_pc)
                   THEN GoOn(frame.target_pc) /\ UNCHANGED program_result
                   ELSE ThrowError("CallOutsideTextSegment") /\ UNCHANGED pc
    /\ UNCHANGED <<call_frames, mem>>

StepUnsupported ==
    /\ Fetch /\ Charge
    /\ IsUnsupported(program, insn)
    /\ ThrowError("UnsupportedInstruction")
    /\ UNCHANGED <<frameVars, mem, reg, pc>>

-----------------------------------------------------------------------------
(* What execute_program does once step has returned false.                 *)
Finish ==
    /\ phase = "stopped"
    /\ remaining' = SaturatingSub(remaining, due_insn_count)
    /\ instruction_count' = SaturatingSub(initial_insn_count, remaining')
    /\ result' = program_result
    /\ program_result' = Ok(0)
    /\ phase' = "done"
    /\ UNCHANGED <<program, runs, previous_instruction_meter, due_insn_count,
                   frameVars, registers, registers11, register_trace, mem, reg, pc,
                   leftover, initial_insn_count>>

Step == \/ StepExceeded \/ StepOverrun \/ StepData
        \/ StepLoadDoubleWord \/ StepJump \/ StepCallReg \/ StepCallImm
        \/ StepExit \/ StepUnsupported

Next == (\E budget \in Budgets : ExecuteProgram(budget)) \/ Step \/ Finish

(* The thread that called execute_program keeps running: `while            *)
(* interpreter.step() {}' and the code after it need nobody else.          *)
Spec == Init /\ [][Next]_vars /\ WF_vars(Step \/ Finish)

-----------------------------------------------------------------------------
(* Properties.                                                             *)

Frames == [r6 : Words, fp : Words, target_pc : Nat]

(* Every variable of the VM and the interpreter keeps its type.            *)
TypeOK ==
    /\ IsProgram(program) /\ Accepts(program)
    /\ phase \in {"idle", "running", "stopped", "done", "panicked"}
    /\ runs \in 0..MaxRuns
    /\ call_depth \in 0..MaxCallDepth /\ leftover \in 0..MaxCallDepth
    /\ call_frames \in [0..MaxCallDepth-1 -> Frames]
    /\ remaining \in Nat /\ previous_instruction_meter \in Nat /\ due_insn_count \in Nat
    /\ registers \in [Registers -> Words] /\ registers11 \in Nat
    /\ program_result \in Results /\ result \in Results
    /\ mem \in Words
    /\ reg \in [Registers -> Words] /\ pc \in 0..program.n
    /\ register_trace \in Seq([pc : Nat, reg : [Registers -> Words]])
    /\ initial_insn_count \in Nat /\ instruction_count \in Nat

(* While step is being called, the VM's copy of the meter is the context   *)
(* object's and no more is due than is left: so the subtractions of        *)
(* dispatch_syscall and of the syscall adapter cannot underflow, and the   *)
(* second test of the meter, at EXIT, never fails.                         *)
MeterConsistent ==
    phase \in {"running", "stopped"} =>
        /\ remaining = previous_instruction_meter
        /\ due_insn_count <= previous_instruction_meter
        /\ remaining <= initial_insn_count

(* push_frame indexes call_frames with call_depth: while the interpreter   *)
(* runs there is a free frame, whatever depth an earlier execution left,   *)
(* as long as it left one; and only a call that finds none panics.         *)
FreeFrame ==
    /\ phase = "running" /\ leftover < MaxCallDepth => call_depth < MaxCallDepth
    /\ phase = "panicked" => leftover = MaxCallDepth

(* Where the i-th active call returns to, and the frame pointer it left.   *)
ReturnsBehindCall(i) ==
    /\ call_frames[i].target_pc - 1 \in 0..program.n-1
    /\ program.text[call_frames[i].target_pc - 1].op \in {"CALL_REG", "CALL_IMM"}

FramePointer(i) == IF i < call_depth THEN call_frames[i].fp ELSE reg[FP]

(* Every active call, of this execution or left over from an earlier one,  *)
(* returns behind a call.  With fixed frames, and without calls left over, *)
(* the frame pointers of the active calls are the initial one and then     *)
(* each one bump above its caller's, whatever the callees did in between.  *)
FramesNested ==
    /\ \A i \in 0..call_depth-1 : ReturnsBehindCall(i)
    /\ phase = "running" /\ leftover = 0 /\ ~ManualStackFrameBump(program.version) =>
          /\ FramePointer(0) = InitialFramePointer(program.version)
          /\ \A i \in 0..call_depth-1 :
                FramePointer(i + 1) = WrappingAdd(FramePointer(i), FrameBump(program.version))

(* An execution that succeeds has returned from every call it made and     *)
(* from those left over: only then does the next one begin at depth zero.  *)
SucceedsAtDepthZero ==
    /\ phase = "stopped" /\ program_result.tag = "Ok" => call_depth = 0
    /\ phase \in {"idle", "done"} /\ result.tag = "Ok" => call_depth = 0

(* Calls nest: push_frame, EXIT and the executions that follow one another *)
(* on a VM keep the frames in order and leave none behind on success.      *)
CallsNested == FramesNested /\ SucceedsAtDepthZero

(* What Rust panics on in a step: a register that does not exist, a        *)
(* division by the constant zero, the missing second half of a lddw.       *)
Panics ==
    \/ insn.op \in DataOps \cup {"LD_DW_IMM", "JEQ"} /\ insn.dst \notin Registers
    \/ insn.op \in {"DIV_REG", "SDIV_REG", "LDX", "ST"} /\ insn.src \notin Registers
    \/ insn.op = "DIV_IMM" /\ insn.imm = 0
    \/ insn.op = "LD_DW_IMM" /\ ~DisableLddw(program.version) /\ pc + 1 >= program.n
    \/ insn.op = "CALL_REG" /\ CallxRegister(program, insn) \notin Registers

(* A program the verifier accepts never makes the interpreter panic, but   *)
(* for a call in an execution that began with every frame taken, nor does  *)
(* it raise InvalidInstruction, which only a byte swap of a bad width does. *)
VerifiedNeverPanics ==
    /\ FreeFrame
    /\ phase = "running" /\ pc < program.n => ~Panics
    /\ program_result # Err("InvalidInstruction")

(* What a call saved is not touched while the call is active: no step      *)
(* changes a frame below both the old and the new call depth.              *)
CallerFramesStable ==
    [][\A i \in 0..MaxCallDepth-1 :
          i < call_depth /\ i < call_depth' => call_frames'[i] = call_frames[i]]_vars

-----------------------------------------------------------------------------
(* The interpreter implements Execution.                                   *)

(* What is left of the budget, and what of the machine can be observed.    *)
Left == IF phase \in {"running", "stopped"}
        THEN previous_instruction_meter - due_insn_count ELSE remaining
Observable(x) == IF phase = "running" /\ Left > 0 THEN x ELSE Dead

Machine == INSTANCE Execution WITH
    running  <- phase = "running",
    pc       <- IF phase = "running" THEN pc ELSE program.entry,
    reg      <- Observable(reg),
    mem      <- IF phase = "running" /\ Left = 0 THEN Dead ELSE mem,
    frames   <- Observable([i \in 1..call_depth |-> call_frames[i - 1]]),
    left     <- Left,
    result   <- IF phase = "stopped" THEN program_result ELSE result,
    final_pc <- registers11

(* What the abstract machine does not know of: an execution that begins    *)
(* with calls left over, and a call that finds no frame.                   *)
BeginsWithCalls == runs' # runs /\ call_depth # 0
FindsNoFrame    == phase' = "panicked" /\ call_depth = MaxCallDepth

(* Every other step of the interpreter, in an execution with calls left    *)
(* over too, is a step of the abstract machine or leaves it unchanged:     *)
(* costs, results, final pc and memory are its.                            *)
ImplementsExecution ==
    Machine!Init /\ [][\/ Machine!Next \/ UNCHANGED Machine!vars
                       \/ BeginsWithCalls
                       \/ FindsNoFrame /\ leftover = MaxCallDepth]_vars

=============================================================================
