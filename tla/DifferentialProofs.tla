------------------------- MODULE DifferentialProofs -------------------------
(***************************************************************************)
(* Proofs about the interpreter and the JIT compiled code side by side,    *)
(* for every configuration, set of accepted programs and set of budgets:   *)
(* what JitProofs shows of the compiled code holds here, and the engines   *)
(* agree.                                                                  *)
(***************************************************************************)
EXTENDS Differential, InterpreterProofs

(* Zenon first: in large contexts it is much the faster of the two.        *)
USE ZenonT(5), SMTT(60)

(* The compiled code, with what is proved about it.                        *)
Code == INSTANCE JitProofs WITH
    phase <- j_phase, runs <- j_runs, emit_pc <- j_emit_pc,
    last_instruction_meter_validation_pc <- j_last_instruction_meter_validation_pc,
    checkpoints <- j_checkpoints, call_depth <- j_call_depth,
    remaining <- j_remaining,
    previous_instruction_meter <- j_previous_instruction_meter,
    due_insn_count <- j_due_insn_count, registers11 <- j_registers11,
    program_result <- j_program_result, register_trace <- j_register_trace,
    mem <- j_mem, pc <- j_pc, meter <- j_meter, reg <- j_reg,
    host_stack <- j_host_stack, initial_insn_count <- j_initial_insn_count,
    instruction_count <- j_instruction_count, result <- j_result,
    leftover <- j_leftover

-----------------------------------------------------------------------------
(* JitCompiled and Code are the same specification.                        *)

LEMMA SameConfig == Code!JitConfig
  BY JitAssumption
     DEF JitCompiled!JitConfig, JitCompiled!IsProgram, JitCompiled!Accepts,
       JitCompiled!Versions, JitCompiled!IsInsn, JitCompiled!check_insn,
       JitCompiled!Width, JitCompiled!Opcodes, JitCompiled!RegisterFields,
       JitCompiled!check_opcode, JitCompiled!check_registers,
       JitCompiled!DisableLddw, JitCompiled!Registers, JitCompiled!check_load_dw,
       JitCompiled!check_imm_nonzero, JitCompiled!check_imm_shift,
       JitCompiled!check_imm_endian, JitCompiled!FP,
       JitCompiled!ManualStackFrameBump, JitCompiled!check_imm_aligned,
       JitCompiled!check_jmp_offset, JitCompiled!check_callx_register,
       JitCompiled!IsUnsupported, JitCompiled!R0, JitCompiled!R1, JitCompiled!R6,
       JitCompiled!JumpTarget, JitCompiled!CallxRegister, JitCompiled!IsDataOp,
       JitCompiled!CallxUsesSrcReg, JitCompiled!CallxUsesDstReg,
       JitCompiled!DataOps, JitCompiled!EnablePqr, JitCompiled!ArithOps,
       Code!JitConfig, Code!IsProgram, Code!Accepts, Code!Versions, Code!IsInsn,
       Code!check_insn, Code!Width, Code!Opcodes, Code!RegisterFields,
       Code!check_opcode, Code!check_registers, Code!DisableLddw, Code!Registers,
       Code!check_load_dw, Code!check_imm_nonzero, Code!check_imm_shift,
       Code!check_imm_endian, Code!FP, Code!ManualStackFrameBump,
       Code!check_imm_aligned, Code!check_jmp_offset, Code!check_callx_register,
       Code!IsUnsupported, Code!R0, Code!R1, Code!R6, Code!JumpTarget,
       Code!CallxRegister, Code!IsDataOp, Code!CallxUsesSrcReg,
       Code!CallxUsesDstReg, Code!DataOps, Code!EnablePqr, Code!ArithOps

(* What is proved of Code rests on the assumptions about its constants.    *)
USE SameConfig, ConfigAssumption, ArithAssumption, SyscallAssumption

LEMMA SameNew == JitCompiled!New => Code!New
  BY DEF JitCompiled!New, JitCompiled!Ok, JitCompiled!StartRegisters,
       JitCompiled!Registers, JitCompiled!FP, JitCompiled!InitialFramePointer,
       JitCompiled!R0, JitCompiled!R1, JitCompiled!R6,
       JitCompiled!ManualStackFrameBump, JitCompiled!SaturatingAdd, Code!New,
       Code!Ok, Code!StartRegisters, Code!Registers, Code!FP,
       Code!InitialFramePointer, Code!R0, Code!R1, Code!R6,
       Code!ManualStackFrameBump, Code!SaturatingAdd

LEMMA SameCompile == JitCompiled!Compile => Code!Compile
  BY DEF JitCompiled!Compile, JitCompiled!EmitInstruction, JitCompiled!EmitBumper,
       JitCompiled!ValidatesMeter, JitCompiled!Width, JitCompiled!callVars,
       JitCompiled!meterVars, JitCompiled!returnVars, JitCompiled!insn,
       JitCompiled!ResolvesToSyscall, JitCompiled!ResolvesToFunction,
       JitCompiled!DisableLddw, JitCompiled!StaticSyscalls, JitCompiled!CallTarget,
       Code!Compile, Code!EmitInstruction, Code!EmitBumper, Code!ValidatesMeter,
       Code!Width, Code!callVars, Code!meterVars, Code!returnVars, Code!insn,
       Code!ResolvesToSyscall, Code!ResolvesToFunction, Code!DisableLddw,
       Code!StaticSyscalls, Code!CallTarget

LEMMA SameStart ==
    ASSUME NEW budget, JitCompiled!ExecuteProgram(budget)
    PROVE  Code!ExecuteProgram(budget)
  BY DEF JitCompiled!ExecuteProgram, JitCompiled!Ok, JitCompiled!StartRegisters,
       JitCompiled!Wrap, JitCompiled!compilerVars, JitCompiled!callVars,
       JitCompiled!Registers, JitCompiled!FP, JitCompiled!InitialFramePointer,
       JitCompiled!R0, JitCompiled!R1, JitCompiled!R6,
       JitCompiled!ManualStackFrameBump, JitCompiled!SaturatingAdd,
       Code!ExecuteProgram, Code!Ok, Code!StartRegisters, Code!Wrap,
       Code!compilerVars, Code!callVars, Code!Registers, Code!FP,
       Code!InitialFramePointer, Code!R0, Code!R1, Code!R6,
       Code!ManualStackFrameBump, Code!SaturatingAdd

LEMMA SameRun == JitCompiled!Run => Code!Run
  BY DEF JitCompiled!Run, JitCompiled!RunExceeded, JitCompiled!RunBumper,
       JitCompiled!RunArithmetic, JitCompiled!RunQuotient, JitCompiled!RunLoadStore,
       JitCompiled!RunLoadDoubleWord, JitCompiled!RunJump, JitCompiled!RunCallReg,
       JitCompiled!RunSyscall, JitCompiled!RunCallImm, JitCompiled!RunExit,
       JitCompiled!RunUnsupported, JitCompiled!ValidatesMeter, JitCompiled!Trace,
       JitCompiled!KeepsMeter, JitCompiled!ThrowExceeded, JitCompiled!compilerVars,
       JitCompiled!callVars, JitCompiled!returnVars, JitCompiled!ThrowException,
       JitCompiled!Profile, JitCompiled!Fetch, JitCompiled!insn,
       JitCompiled!ArithOps, JitCompiled!RegistersAfter, JitCompiled!GoOn,
       JitCompiled!IsDataOp, JitCompiled!Fault, JitCompiled!TranslateMemoryAddress,
       JitCompiled!JumpTarget, JitCompiled!BranchTaken, JitCompiled!UndoProfile,
       JitCompiled!InternalCall, JitCompiled!CallxTarget, JitCompiled!CallxRegister,
       JitCompiled!ResolvesToSyscall, JitCompiled!SaturatingSub, JitCompiled!R0,
       JitCompiled!R1, JitCompiled!Err, JitCompiled!ResolvesToFunction,
       JitCompiled!Ok, JitCompiled!CallTarget, JitCompiled!Epilogue, JitCompiled!R6,
       JitCompiled!FP, JitCompiled!IsUnsupported, JitCompiled!Wrap,
       JitCompiled!Quotient, JitCompiled!Signed, JitCompiled!DataOps,
       JitCompiled!EnablePqr, JitCompiled!WrappingAdd, JitCompiled!MemoryAfter,
       JitCompiled!FrameBump, JitCompiled!WrappingSub, JitCompiled!CallxUsesSrcReg,
       JitCompiled!CallxUsesDstReg, JitCompiled!StaticSyscalls,
       JitCompiled!DisableLddw, JitCompiled!ManualStackFrameBump,
       JitCompiled!HasStackFrameGaps, Code!Run, Code!RunExceeded, Code!RunBumper,
       Code!RunArithmetic, Code!RunQuotient, Code!RunLoadStore,
       Code!RunLoadDoubleWord, Code!RunJump, Code!RunCallReg, Code!RunSyscall,
       Code!RunCallImm, Code!RunExit, Code!RunUnsupported, Code!ValidatesMeter,
       Code!Trace, Code!KeepsMeter, Code!ThrowExceeded, Code!compilerVars,
       Code!callVars, Code!returnVars, Code!ThrowException, Code!Profile,
       Code!Fetch, Code!insn, Code!ArithOps, Code!RegistersAfter, Code!GoOn,
       Code!IsDataOp, Code!Fault, Code!TranslateMemoryAddress, Code!JumpTarget,
       Code!BranchTaken, Code!UndoProfile, Code!InternalCall, Code!CallxTarget,
       Code!CallxRegister, Code!ResolvesToSyscall, Code!SaturatingSub, Code!R0,
       Code!R1, Code!Err, Code!ResolvesToFunction, Code!Ok, Code!CallTarget,
       Code!Epilogue, Code!R6, Code!FP, Code!IsUnsupported, Code!Wrap,
       Code!Quotient, Code!Signed, Code!DataOps, Code!EnablePqr, Code!WrappingAdd,
       Code!MemoryAfter, Code!FrameBump, Code!WrappingSub, Code!CallxUsesSrcReg,
       Code!CallxUsesDstReg, Code!StaticSyscalls, Code!DisableLddw,
       Code!ManualStackFrameBump, Code!HasStackFrameGaps

LEMMA SameFinish == JitCompiled!Finish => Code!Finish
  BY DEF JitCompiled!Finish, JitCompiled!SaturatingSub, JitCompiled!Ok,
       JitCompiled!compilerVars, Code!Finish, Code!SaturatingSub, Code!Ok,
       Code!compilerVars

(* The abstract machines of the two engines are the same.                  *)
LEMMA SameAfter ==
    ASSUME NEW p, NEW s
    PROVE  Code!Machine!After(p, s) = Machine!After(p, s)
  BY DEF Machine!After, Machine!Halted, Machine!Exceeded, Machine!Err,
       Machine!AfterInsn, Machine!IsDataOp, Machine!AfterData,
       Machine!IsUnsupported, Machine!Going, Machine!BranchTaken,
       Machine!JumpTarget, Machine!Called, Machine!CallxTarget,
       Machine!CallxRegister, Machine!AfterCallImm, Machine!AfterExit,
       Machine!DataOps, Machine!EnablePqr, Machine!Fault, Machine!RegistersAfter,
       Machine!MemoryAfter, Machine!DisableLddw, Machine!Visible,
       Machine!IsPcInProgram, Machine!FP, Machine!WrappingAdd, Machine!FrameBump,
       Machine!Frame, Machine!WrappingSub, Machine!CallxUsesSrcReg,
       Machine!CallxUsesDstReg, Machine!ResolvesToSyscall, Machine!Max0, Machine!R1,
       Machine!R0, Machine!ResolvesToFunction, Machine!CallTarget, Machine!Ok,
       Machine!R6, Machine!ArithOps, Machine!Quotient, Machine!Signed,
       Machine!ManualStackFrameBump, Machine!HasStackFrameGaps,
       Machine!StaticSyscalls, Code!Machine!After, Code!Machine!Halted,
       Code!Machine!Exceeded, Code!Machine!Err, Code!Machine!AfterInsn,
       Code!Machine!IsDataOp, Code!Machine!AfterData, Code!Machine!IsUnsupported,
       Code!Machine!Going, Code!Machine!BranchTaken, Code!Machine!JumpTarget,
       Code!Machine!Called, Code!Machine!CallxTarget, Code!Machine!CallxRegister,
       Code!Machine!AfterCallImm, Code!Machine!AfterExit, Code!Machine!DataOps,
       Code!Machine!EnablePqr, Code!Machine!Fault, Code!Machine!RegistersAfter,
       Code!Machine!MemoryAfter, Code!Machine!DisableLddw, Code!Machine!Visible,
       Code!Machine!IsPcInProgram, Code!Machine!FP, Code!Machine!WrappingAdd,
       Code!Machine!FrameBump, Code!Machine!Frame, Code!Machine!WrappingSub,
       Code!Machine!CallxUsesSrcReg, Code!Machine!CallxUsesDstReg,
       Code!Machine!ResolvesToSyscall, Code!Machine!Max0, Code!Machine!R1,
       Code!Machine!R0, Code!Machine!ResolvesToFunction, Code!Machine!CallTarget,
       Code!Machine!Ok, Code!Machine!R6, Code!Machine!ArithOps,
       Code!Machine!Quotient, Code!Machine!Signed,
       Code!Machine!ManualStackFrameBump, Code!Machine!HasStackFrameGaps,
       Code!Machine!StaticSyscalls

LEMMA SameStarted ==
    ASSUME NEW p, NEW r, NEW m, NEW l, NEW last
    PROVE  Code!Machine!Started(p, r, m, l, last) = Machine!Started(p, r, m, l, last)
  BY DEF Machine!Started, Machine!Visible, Code!Machine!Started, Code!Machine!Visible

LEMMA SameMachineInit == Code!Machine!Init => JitCompiled!Machine!Init
  BY DEF JitCompiled!Machine!Init, JitCompiled!Machine!IsProgram,
       JitCompiled!Machine!Words, JitCompiled!Machine!Ok,
       JitCompiled!Machine!Versions, JitCompiled!Machine!IsInsn,
       JitCompiled!Machine!Opcodes, JitCompiled!Machine!RegisterFields,
       JitCompiled!Machine!Registers, JitCompiled!Machine!R0,
       JitCompiled!Machine!R1, JitCompiled!Machine!R6, JitCompiled!Machine!FP,
       Code!Machine!Init, Code!Machine!IsProgram, Code!Machine!Words,
       Code!Machine!Ok, Code!Machine!Versions, Code!Machine!IsInsn,
       Code!Machine!Opcodes, Code!Machine!RegisterFields, Code!Machine!Registers,
       Code!Machine!R0, Code!Machine!R1, Code!Machine!R6, Code!Machine!FP,
       JitCompiled!Left, JitCompiled!Observable, JitCompiled!ShownPc,
       JitCompiled!SaturatingSub, Code!Left, Code!Observable, Code!ShownPc,
       Code!SaturatingSub

LEMMA SameMachineNext == Code!Machine!Next => JitCompiled!Machine!Next
  BY DEF JitCompiled!Machine!Next, JitCompiled!Machine!Start,
       JitCompiled!Machine!Exceed, JitCompiled!Machine!Overrun,
       JitCompiled!Machine!Data, JitCompiled!Machine!LoadDoubleWord,
       JitCompiled!Machine!Jump, JitCompiled!Machine!CallReg,
       JitCompiled!Machine!CallImm, JitCompiled!Machine!Exit,
       JitCompiled!Machine!Unsupported, JitCompiled!Machine!Registers,
       JitCompiled!Machine!Words, JitCompiled!Machine!FP,
       JitCompiled!Machine!InitialFramePointer, JitCompiled!Machine!R6,
       JitCompiled!Machine!Visible, JitCompiled!Machine!Halt,
       JitCompiled!Machine!Err, JitCompiled!Machine!IsDataOp,
       JitCompiled!Machine!Fault, JitCompiled!Machine!Continue,
       JitCompiled!Machine!RegistersAfter, JitCompiled!Machine!MemoryAfter,
       JitCompiled!Machine!At, JitCompiled!Machine!DisableLddw,
       JitCompiled!Machine!BranchTaken, JitCompiled!Machine!JumpTarget,
       JitCompiled!Machine!CallxRegister, JitCompiled!Machine!Call,
       JitCompiled!Machine!CallxTarget, JitCompiled!Machine!ResolvesToSyscall,
       JitCompiled!Machine!ResolvesToFunction, JitCompiled!Machine!Max0,
       JitCompiled!Machine!R1, JitCompiled!Machine!R0,
       JitCompiled!Machine!CallTarget, JitCompiled!Machine!Ok,
       JitCompiled!Machine!IsPcInProgram, JitCompiled!Machine!IsUnsupported,
       JitCompiled!Machine!ManualStackFrameBump, JitCompiled!Machine!SaturatingAdd,
       JitCompiled!Machine!DataOps, JitCompiled!Machine!EnablePqr,
       JitCompiled!Machine!WrappingAdd, JitCompiled!Machine!ArithOps,
       JitCompiled!Machine!Quotient, JitCompiled!Machine!Signed,
       JitCompiled!Machine!CallxUsesSrcReg, JitCompiled!Machine!CallxUsesDstReg,
       JitCompiled!Machine!FrameBump, JitCompiled!Machine!Frame,
       JitCompiled!Machine!WrappingSub, JitCompiled!Machine!StaticSyscalls,
       JitCompiled!Machine!HasStackFrameGaps, Code!Machine!Next, Code!Machine!Start,
       Code!Machine!Exceed, Code!Machine!Overrun, Code!Machine!Data,
       Code!Machine!LoadDoubleWord, Code!Machine!Jump, Code!Machine!CallReg,
       Code!Machine!CallImm, Code!Machine!Exit, Code!Machine!Unsupported,
       Code!Machine!Registers, Code!Machine!Words, Code!Machine!FP,
       Code!Machine!InitialFramePointer, Code!Machine!R6, Code!Machine!Visible,
       Code!Machine!Halt, Code!Machine!Err, Code!Machine!IsDataOp,
       Code!Machine!Fault, Code!Machine!Continue, Code!Machine!RegistersAfter,
       Code!Machine!MemoryAfter, Code!Machine!At, Code!Machine!DisableLddw,
       Code!Machine!BranchTaken, Code!Machine!JumpTarget,
       Code!Machine!CallxRegister, Code!Machine!Call, Code!Machine!CallxTarget,
       Code!Machine!ResolvesToSyscall, Code!Machine!ResolvesToFunction,
       Code!Machine!Max0, Code!Machine!R1, Code!Machine!R0, Code!Machine!CallTarget,
       Code!Machine!Ok, Code!Machine!IsPcInProgram, Code!Machine!IsUnsupported,
       Code!Machine!ManualStackFrameBump, Code!Machine!SaturatingAdd,
       Code!Machine!DataOps, Code!Machine!EnablePqr, Code!Machine!WrappingAdd,
       Code!Machine!ArithOps, Code!Machine!Quotient, Code!Machine!Signed,
       Code!Machine!CallxUsesSrcReg, Code!Machine!CallxUsesDstReg,
       Code!Machine!FrameBump, Code!Machine!Frame, Code!Machine!WrappingSub,
       Code!Machine!StaticSyscalls, Code!Machine!HasStackFrameGaps,
       JitCompiled!Left, JitCompiled!Observable, JitCompiled!ShownPc,
       JitCompiled!SaturatingSub, Code!Left, Code!Observable, Code!ShownPc,
       Code!SaturatingSub

LEMMA SameMachineVars == UNCHANGED Code!Machine!vars => UNCHANGED JitCompiled!Machine!vars
  BY DEF JitCompiled!Machine!vars, Code!Machine!vars, JitCompiled!Left,
       JitCompiled!Observable, JitCompiled!ShownPc, JitCompiled!SaturatingSub,
       Code!Left, Code!Observable, Code!ShownPc, Code!SaturatingSub

-----------------------------------------------------------------------------
(* The two VMs take turns.                                                 *)

(* The compiled code runs once the interpreter is done, on the same        *)
(* budget.                                                                 *)
Turns ==
    /\ runs = 0 \/ (runs = 1 /\ phase # "done") => j_runs = 0
    /\ runs = 1 /\ j_runs = 1 => j_initial_insn_count = initial_insn_count
    /\ j_runs # 0 => Compiled(program)

BothInv == IndInv /\ FirstRun /\ Code!JitInv /\ Code!FirstRun /\ Turns

(* Every step is one of the interpreter, or nothing to it.                 *)
LEMMA InterpreterSteps ==
    ASSUME [BothNext]_allVars
    PROVE  [Next]_vars
  BY DEF BothNext, Interpret, CompileAndRun, allVars

(* What the compiled code does.                                            *)
LEMMA CodeActs ==
    ASSUME FirstRun, CompileAndRun
    PROVE  /\ phase = "done" /\ UNCHANGED vars /\ Compiled(program)
           /\ runs # 0 /\ initial_insn_count \in Budgets
           /\ \/ Code!ExecuteProgram(initial_insn_count)
              \/ Code!Compile \/ Code!Run \/ Code!Finish
  BY SameCompile, SameStart, SameRun, SameFinish DEF CompileAndRun, Level, FirstRun

(* Every step is one of the compiled code, or nothing to it.               *)
LEMMA CodeSteps ==
    ASSUME RefInv, FirstRun, [BothNext]_allVars
    PROVE  \/ UNCHANGED Code!vars
           \/ CompileAndRun /\ Code!Next
  <1>1. ASSUME UNCHANGED jvars, program' = program PROVE UNCHANGED Code!vars
    BY <1>1 DEF jvars, Code!vars, Code!compilerVars, Code!callVars, Code!meterVars,
       Code!returnVars
  <1>2. CASE UNCHANGED allVars
    BY <1>1, <1>2 DEF allVars, vars
  <1>3. CASE Interpret
    BY <1>1, <1>3, RunsCounted DEF Interpret
  <1>4. CASE CompileAndRun
    BY <1>4, CodeActs DEF Code!Next
  <1>5. QED
    BY <1>2, <1>3, <1>4 DEF BothNext

(* Both VMs are new.                                                       *)
LEMMA BothInvInit == BothInit => BothInv
  <1> SUFFICES ASSUME BothInit PROVE BothInv
    OBVIOUS
  <1>1. Init /\ Code!New /\ program \in Programs
    BY SameNew DEF BothInit, Init
  <1>2. IndInv /\ FirstRun
    BY <1>1, IndInvInit, FirstRunInit
  <1>3. Code!JitInv /\ Code!FirstRun
    BY <1>1, Code!JitInvInit, Code!FirstRunInit DEF Code!Init
  <1>4. QED
    BY <1>1, <1>2, <1>3 DEF BothInv, Turns, Init, Code!New

(* They stay in turn.                                                      *)
LEMMA TurnsKept ==
    ASSUME BothInv, [BothNext]_allVars
    PROVE  Turns'
  <1>1. CASE UNCHANGED allVars
    BY <1>1 DEF BothInv, allVars, vars, jvars, returnVars, Turns
  <1>2. CASE Interpret
    <2>1. /\ program' = program /\ j_runs' = j_runs /\ runs \in Nat
          /\ \/ phase \in {"idle", "done"} /\ runs' = runs + 1
             \/ phase \in {"running", "stopped"} /\ runs' = runs
      BY <1>2, RunsCounted DEF BothInv, IndInv, FirstRun, Interpret, jvars
    <2>2. CASE j_runs = 0
      BY <2>1, <2>2 DEF Turns
    <2>3. CASE j_runs # 0
      <3>1. runs # 0 /\ (runs = 1 => phase = "done") /\ Compiled(program)
        BY <2>3 DEF BothInv, Turns
      <3>2. runs' # 0 /\ runs' # 1
        BY <2>1, <3>1
      <3>3. QED
        BY <2>1, <3>1, <3>2 DEF Turns
    <2>4. QED
      BY <2>2, <2>3
  <1>3. CASE CompileAndRun
    <2>1. /\ phase = "done" /\ Compiled(program) /\ runs # 0
          /\ UNCHANGED <<phase, runs, program, initial_insn_count>>
      BY <1>3, CodeActs DEF BothInv, vars, returnVars
    <2>2. CASE j_runs' = j_runs /\ j_initial_insn_count' = j_initial_insn_count
      BY <2>1, <2>2 DEF BothInv, Turns
    <2>3. CASE j_initial_insn_count' = initial_insn_count
      BY <2>1, <2>3 DEF Turns
    <2>4. QED
      BY <1>3, <2>2, <2>3, CodeActs, Code!RunsCounted DEF BothInv, Code!ExecuteProgram
  <1>4. QED
    BY <1>1, <1>2, <1>3 DEF BothNext

(* Every step keeps the invariants of both engines.                        *)
LEMMA BothInvStep == BothInv /\ [BothNext]_allVars => BothInv'
  <1> SUFFICES ASSUME BothInv, [BothNext]_allVars PROVE BothInv'
    OBVIOUS
  <1>1. IndInv' /\ FirstRun'
    BY InterpreterSteps, IndInvStep, FirstRunStep DEF BothInv
  <1>2. Code!JitInv' /\ Code!FirstRun'
    BY CodeSteps, Code!StepImplements, Code!FirstRunStep DEF BothInv, IndInv
  <1>3. QED
    BY <1>1, <1>2, TurnsKept DEF BothInv

-----------------------------------------------------------------------------
(* What is proved of the compiled code holds here.                         *)

LEMMA SameOverrun == Code!OverrunBounded => OverrunBounded
  BY DEF Code!OverrunBounded, OverrunBounded, JitCompiled!OverrunBounded

(* Wherever a jump, a call or a return enters it, compiled code executes   *)
(* at most CheckpointDistance instructions its budget does not cover.      *)
THEOREM CodeOverrunBounded == BothSpec => []OverrunBounded
  <1>1. BothInv => OverrunBounded
    BY SameOverrun, Code!OverrunFollows DEF BothInv
  <1>2. QED
    BY <1>1, BothInvInit, BothInvStep, PTL DEF BothSpec

(* However often a VM executes its program and however each execution      *)
(* ended, call_depth counts the frames on the host stack of compiled code  *)
(* on top of the calls that earlier executions left.                       *)
THEOREM CodeStackMatches == BothSpec => []HostStackMatchesDepth
  <1>1. BothInv => HostStackMatchesDepth
    BY DEF BothInv, Code!JitInv, Code!Balanced, Code!Counted, HostStackMatchesDepth,
           JitCompiled!HostStackMatchesDepth
  <1>2. QED
    BY <1>1, BothInvInit, BothInvStep, PTL DEF BothSpec

(* A program that is compiled does not end in a call: the code has no      *)
(* instruction to return to behind the last one.                           *)
CompiledReturn == \A p \in Programs : Compiled(p) => Code!ReturnsInside(p)

(* What compiled code costs, returns and leaves in memory is what          *)
(* Execution says in every execution that begins at call depth 0, unless a *)
(* compiled program ends in a call.                                        *)
THEOREM CodeImplementsExecution ==
    ASSUME CompiledReturn
    PROVE  BothSpec => JitImplementsExecution
  <1>1. BothInit => JitCompiled!Machine!Init
    BY SameNew, SameMachineInit, Code!InitImplements DEF BothInit, Init, Code!Init
  <1>2. ASSUME BothInv, [BothNext]_allVars
        PROVE  [j_leftover' = 0 => \/ JitCompiled!Machine!Next
                                   \/ UNCHANGED JitCompiled!Machine!vars]_JitCompiled!vars
    <2>1. CASE UNCHANGED Code!vars
      BY <2>1, Code!MachineStays, SameMachineVars
    <2>2. CASE CompileAndRun /\ Code!Next
      <3>1. Code!ReturnsInside(program)
        BY <1>2, <2>2, CodeActs DEF BothInv, CompiledReturn, Code!JitInv, Code!Types
      <3>2. QED
        BY <1>2, <2>2, <3>1, Code!StepImplements, SameMachineNext,
           SameMachineVars
           DEF BothInv
    <2>3. QED
      BY <1>2, <2>1, <2>2, CodeSteps DEF BothInv, IndInv
  <1>3. QED
    BY <1>1, <1>2, BothInvInit, BothInvStep, PTL
       DEF BothSpec, JitImplementsExecution, JitCompiled!JitImplementsExecution

-----------------------------------------------------------------------------
(* The engines agree.                                                      *)

(* The states the interpreter went through are the course that the         *)
(* compiled code is to take.                                               *)
LEMMA SameCourse ==
    ASSUME BothInv, phase = "done", runs = 1, j_runs = 1,
           NEW n \in Nat, NEW h, h[0] = Begun, History(h, n)
    PROVE  Code!Course(h, n)
  <1>1. Code!Begun = Begun
    BY SameStarted DEF BothInv, Turns, Begun, Code!Begun, NewRegisters,
       Code!StartRegisters, Registers, R0, R1, R6, FP, InitialFramePointer,
       ManualStackFrameBump, SaturatingAdd, Ok, Code!Registers, Code!R0, Code!R1, Code!R6,
       Code!FP, Code!InitialFramePointer, Code!ManualStackFrameBump, Code!SaturatingAdd,
       Code!Ok
  <1>2. h[n].running = FALSE
    BY DoneState DEF History
  <1>3. QED
    BY <1>1, <1>2, SameAfter DEF History, Code!Course

(* When both are done they have come to the same state.                    *)
LEMMA Agreement ==
    ASSUME CompiledReturn, BothInv
    PROVE  EnginesAgree
  <1> SUFFICES ASSUME phase = "done", j_phase = "done", runs = 1, j_runs = 1
               PROVE  /\ SameResult
                      /\ instruction_count = j_instruction_count
                      /\ registers11 = j_registers11
                      /\ Len(register_trace) <= Len(j_register_trace)
                      /\ \A i \in 1..Len(register_trace) :
                            register_trace[i] = j_register_trace[i]
    BY DEF EnginesAgree
  <1>1. PICK n \in Nat : \E h : h[0] = Begun /\ History(h, n)
    BY DEF BothInv, FirstRun
  <1>2. PICK h : h[0] = Begun /\ History(h, n)
    BY <1>1
  <1>3. Code!ReturnsInside(program)
    BY DEF BothInv, Turns, CompiledReturn, Code!JitInv, Code!Types
  <1>4. Code!History(h, n)
    BY <1>2, <1>3, SameCourse, Code!CourseEnds DEF BothInv
  <1>5. h[n] = Machine!State /\ h[n] = Code!Machine!State
    BY <1>2, <1>4 DEF History, Code!History
  <1>6. /\ h[n].result = result /\ h[n].left = remaining /\ h[n].final_pc = registers11
        /\ result # Err("ExceededMaxInstructions") => h[n].mem = mem
    BY <1>5, DoneState
  <1>7. /\ h[n].result = j_result /\ h[n].left = j_remaining
        /\ h[n].final_pc = j_registers11
        /\ j_result # Code!Err("ExceededMaxInstructions") => h[n].mem = j_mem
    BY <1>5, Code!DoneState
  <1>8. SameResult /\ registers11 = j_registers11
    BY <1>6, <1>7 DEF SameResult, Err, Code!Err
  <1>9. instruction_count = j_instruction_count
    BY <1>6, <1>7 DEF BothInv, FirstRun, Code!FirstRun, Turns, SaturatingSub,
       Code!SaturatingSub
  <1>10. \A i \in 1..Len(register_trace) :
            i <= Len(j_register_trace) /\ register_trace[i] = j_register_trace[i]
    <2> TAKE i \in 1..Len(register_trace)
    <2>1. /\ i <= n /\ h[i - 1].left > 0 /\ h[i - 1].pc < program.n
          /\ register_trace[i] = [pc |-> h[i - 1].pc, reg |-> h[i - 1].reg]
      BY <1>2 DEF History, Entry
    <2>2. i \in 1..n
      BY <2>1
    <2>3. QED
      BY <1>4, <2>1, <2>2 DEF Code!History
  <1>11. Len(register_trace) <= Len(j_register_trace)
    <2>1. Len(register_trace) \in Nat /\ Len(j_register_trace) \in Nat
      BY DEF BothInv, IndInv, RefInv, TypeOK, Code!FirstRun
    <2>2. CASE Len(register_trace) = 0
      BY <2>1, <2>2
    <2>3. CASE Len(register_trace) # 0
      <3>1. Len(register_trace) \in 1..Len(register_trace)
        BY <2>1, <2>3
      <3>2. QED
        BY <1>10, <3>1
    <2>4. QED
      BY <2>2, <2>3
  <1>12. QED
    BY <1>8, <1>9, <1>10, <1>11

(* On every accepted program that does not end in a call, and on every     *)
(* budget, the first execution of the interpreter and of the compiled code *)
(* return the same result, memory, instruction count and final pc, and the *)
(* interpreter's trace is a prefix of the compiled code's: what the macro  *)
(* test_interpreter_and_jit asserts of the programs of the tests.          *)
THEOREM EnginesAlwaysAgree ==
    ASSUME CompiledReturn
    PROVE  BothSpec => []EnginesAgree
  <1>1. BothInv => EnginesAgree
    BY Agreement
  <1>2. QED
    BY <1>1, BothInvInit, BothInvStep, PTL DEF BothSpec

=============================================================================
