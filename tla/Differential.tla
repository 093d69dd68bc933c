---------------------------- MODULE Differential ----------------------------
(***************************************************************************)
(* The interpreter and the JIT compiled code on the same program and the   *)
(* same budgets, each in a VM of its own: what the macro                   *)
(* test_interpreter_and_jit of test_utils does.  The two VMs share no      *)
(* state; the JIT compiled code runs once the interpreter is done, and     *)
(* when both are done both may execute again.                              *)
(***************************************************************************)
EXTENDS Interpreter

CONSTANTS
    CheckpointDistance, MeterWord,
    Compiled(_)     \* whether a program is compiled as well

VARIABLES
    j_phase, j_runs, j_emit_pc, j_last_instruction_meter_validation_pc, j_checkpoints,
    j_call_depth, j_remaining, j_previous_instruction_meter, j_due_insn_count,
    j_registers11, j_program_result, j_register_trace, j_mem, j_pc, j_meter, j_reg,
    j_host_stack, j_initial_insn_count, j_instruction_count, j_result, j_leftover

JitCompiled == INSTANCE Jit WITH
    phase <- j_phase, runs <- j_runs, emit_pc <- j_emit_pc,
    last_instruction_meter_validation_pc <- j_last_instruction_meter_validation_pc,
    checkpoints <- j_checkpoints, call_depth <- j_call_depth,
    remaining <- j_remaining,
    previous_instruction_meter <- j_previous_instruction_meter,
    due_insn_count <- j_due_insn_count, registers11 <- j_registers11,
    program_result <- j_program_result, register_trace <- j_register_trace,
    mem <- j_mem, pc <- j_pc, meter <- j_meter, reg <- j_reg,
    host_stack <- j_host_stack, initial_insn_count <- j_initial_insn_count,
    instruction_count <- j_instruction_count, result <- j_result,
    leftover <- j_leftover

ASSUME JitAssumption == JitCompiled!JitConfig

jvars == <<j_phase, j_runs, j_emit_pc, j_last_instruction_meter_validation_pc,
           j_checkpoints, j_call_depth, j_remaining, j_previous_instruction_meter,
           j_due_insn_count, j_registers11, j_program_result, j_register_trace,
           j_mem, j_pc, j_meter, j_reg, j_host_stack, j_initial_insn_count,
           j_instruction_count, j_result, j_leftover>>
allVars == <<vars, jvars>>

BothInit == Init /\ JitCompiled!New

(* Both VMs have executed the program equally often.                       *)
Level == Compiled(program) => (j_phase = "done" /\ j_runs = runs)

Interpret ==
    /\ phase = "done" => Level
    /\ Next
    /\ UNCHANGED jvars

CompileAndRun ==
    /\ phase = "done" /\ ~Level
    /\ \/ JitCompiled!Compile
       \/ JitCompiled!ExecuteProgram(initial_insn_count)
       \/ JitCompiled!Run
       \/ JitCompiled!Finish
    /\ UNCHANGED vars

BothNext == Interpret \/ CompileAndRun

(* An execution that has begun goes on, in one engine and then the other.  *)
GoesOn == ((Step \/ Finish) /\ UNCHANGED jvars) \/ CompileAndRun
BothSpec == BothInit /\ [][BothNext]_allVars /\ WF_allVars(GoesOn)

-----------------------------------------------------------------------------
(* "Result of interpreter ... and JIT ... diverged": both engines return   *)
(* the same result and leave the same memory; what a program stored before *)
(* it exceeded its budget may differ, as the JIT compiled code goes on.    *)
SameResult ==
    phase = "done" /\ j_phase = "done" /\ runs = 1 /\ j_runs = 1 =>
        /\ result = j_result
        /\ result # Err("ExceededMaxInstructions") => mem = j_mem

(* What test_interpreter_and_jit asserts of a program and a budget: the    *)
(* same result, "Instruction meter of interpreter ... and JIT ... diverged" *)
(* and "Final PC of interpreter ... and JIT ... diverged" never happen, and *)
(* the interpreter's trace is a prefix of the JIT's, which "can be longer  *)
(* because it only validates the instruction meter at branches".           *)
EnginesAgree ==
    phase = "done" /\ j_phase = "done" /\ runs = 1 /\ j_runs = 1 =>
        /\ SameResult
        /\ instruction_count = j_instruction_count /\ registers11 = j_registers11
        /\ Len(register_trace) <= Len(j_register_trace)
        /\ \A i \in 1..Len(register_trace) : register_trace[i] = j_register_trace[i]

(* No execution is going on in either engine.                              *)
AtRest == phase \in {"idle", "panicked"} \/ (phase = "done" /\ Level)

(* A program that the interpreter executes ends in both engines, also one  *)
(* that returns into calls an earlier execution left: there is no loop     *)
(* that does not test the meter.  If a call finds no frame, which only an  *)
(* earlier execution can cause, the interpreter ends in a panic.           *)
BothTerminate == []<>AtRest

(* The JIT compiled code overruns its budget by no more than the           *)
(* checkpoint distance, counts in call_depth the frames on its host stack, *)
(* and implements the abstract machine.                                    *)
OverrunBounded == JitCompiled!OverrunBounded
HostStackMatchesDepth == JitCompiled!HostStackMatchesDepth
JitImplementsExecution == JitCompiled!JitImplementsExecution

=============================================================================
