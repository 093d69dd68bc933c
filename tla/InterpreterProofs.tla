------------------------- MODULE InterpreterProofs -------------------------
(***************************************************************************)
(* Proofs about the interpreter, for every configuration, every set of     *)
(* accepted programs and every set of budgets: its invariants, that it     *)
(* implements Execution, and the same under a debugger.                    *)
(***************************************************************************)
EXTENDS Debugger, VerifierLemmas

(* Zenon first: in large contexts it is much the faster of the two.        *)
USE ZenonT(10), SMTT(60)

-----------------------------------------------------------------------------
(* Every step keeps the types, and the meter.                              *)

(* The instruction a step executes.                                        *)
LEMMA FetchedInsn ==
    ASSUME TypeOK, Fetch
    PROVE  /\ IsProgram(program) /\ Accepts(program)
           /\ pc \in 0..program.n-1 /\ program.n \in Nat /\ pc \in Nat
           /\ register_trace' \in Seq([pc : Nat, reg : [Registers -> Words]])
           /\ program' = program /\ runs' = runs /\ leftover' = leftover
           /\ initial_insn_count' = initial_insn_count
           /\ instruction_count' = instruction_count /\ result' = result
  BY SMTT(60) DEF TypeOK, Fetch, IsProgram, returnVars

(* What charging an instruction leaves of the meter.                       *)
LEMMA Charged ==
    ASSUME TypeOK, Charge
    PROVE  /\ remaining' \in Nat /\ previous_instruction_meter' \in Nat
           /\ due_insn_count' \in Nat /\ registers' \in [Registers -> Words]
  <1>1. \A d \in Nat : d + 1 \in Nat
    OBVIOUS
  <1>2. QED
    BY <1>1 DEF Charge, TypeOK

(* The types of what a call may change.                                    *)
PushedTypes ==
    /\ phase' \in {"running", "stopped", "panicked"}
    /\ call_depth' \in 0..MaxCallDepth
    /\ call_frames' \in [0..MaxCallDepth-1 -> Frames]
    /\ registers11' \in Nat
    /\ program_result' \in Results
    /\ mem' \in Words
    /\ reg' \in [Registers -> Words]
    /\ pc' \in 0..program.n

(* A call keeps the types, whatever its target.                            *)
LEMMA PushFrameType ==
    ASSUME TypeOK, phase = "running", call_depth < MaxCallDepth, pc \in 0..program.n-1,
           NEW r \in [Registers -> Words], NEW target \in Nat, NEW res \in Results,
           program' = program, PushFrame(r, target, res)
    PROVE  PushedTypes
  <1>1. call_depth \in 0..MaxCallDepth-1
    BY ConfigAssumption, SMTT(60) DEF TypeOK
  <1>2. [r6 |-> r[R6], fp |-> r[FP], target_pc |-> pc + 1] \in Frames
    BY SMTT(60) DEF Frames, Registers, TypeOK, IsProgram
  <1>3. /\ call_frames' \in [0..MaxCallDepth-1 -> Frames]
        /\ call_depth' \in 0..MaxCallDepth
    BY <1>1, <1>2, ConfigAssumption, SMTT(60) DEF PushFrame, TypeOK
  <1>4. [r EXCEPT ![FP] = WrappingAdd(@, FrameBump(program.version))]
            \in [Registers -> Words]
    BY BumpedWord DEF Registers
  <1>5. /\ reg' \in [Registers -> Words]
        /\ mem' \in Words
    BY <1>4 DEF PushFrame, TypeOK
  <1>6. /\ Err("CallDepthExceeded") \in Results
        /\ Err("CallOutsideTextSegment") \in Results
    BY ResultTypes DEF Errors
  <1>7. /\ phase' \in {"running", "stopped"}
        /\ registers11' \in Nat
        /\ program_result' \in Results
        /\ pc' \in 0..program.n
    <2>1. pc \in Nat /\ pc \in 0..program.n
      BY SMTT(60) DEF TypeOK, IsProgram
    <2>2. IsPcInProgram(program, target) => target \in 0..program.n
      BY SMTT(60) DEF TypeOK, IsProgram, IsPcInProgram
    <2>3. registers11 \in Nat
      BY DEF TypeOK
    <2>4. QED
      BY <1>6, <2>1, <2>2, <2>3 DEF PushFrame, ThrowError, GoOn
  <1>8. QED
    BY <1>3, <1>5, <1>7 DEF PushedTypes

(* So does one that finds no frame.                                        *)
LEMMA CallFunctionType ==
    ASSUME TypeOK, phase = "running", pc \in 0..program.n-1,
           NEW r \in [Registers -> Words], NEW target \in Nat, NEW res \in Results,
           program' = program, CallFunction(r, target, res)
    PROVE  PushedTypes
  <1>1. CASE call_depth < MaxCallDepth
    <2>1. PushFrame(r, target, res)
      BY <1>1 DEF CallFunction
    <2>2. QED
      BY <1>1, <2>1, PushFrameType
  <1>2. CASE ~(call_depth < MaxCallDepth)
    BY <1>2 DEF CallFunction, frameVars, PushedTypes, TypeOK
  <1>3. QED
    BY <1>1, <1>2

(* The initial state has the types.                                        *)
LEMMA TypeInit == Init => TypeOK
  <1> SUFFICES ASSUME Init PROVE TypeOK
    OBVIOUS
  <1>1. IsProgram(program) /\ Accepts(program) /\ MaxRuns \in Nat
    BY ProgramsAssumption DEF Init
  <1>2. registers \in [Registers -> Words] /\ mem \in Words
    BY InitialWords DEF Init
  <1>3. reg \in [Registers -> Words]
    BY <1>2 DEF Init
  <1>4. DefaultFrame \in Frames
    BY InitialWords DEF DefaultFrame, Frames
  <1>5. call_frames \in [0..MaxCallDepth-1 -> Frames]
    BY <1>4 DEF Init
  <1>6. Ok(0) \in Results
    BY InitialWords, ResultTypes
  <1>7. pc \in 0..program.n
    BY <1>1 DEF Init, IsProgram
  <1>8. register_trace \in Seq([pc : Nat, reg : [Registers -> Words]])
    BY DEF Init
  <1>9. QED
    BY <1>1, <1>2, <1>3, <1>5, <1>6, <1>7, <1>8, ConfigAssumption, SMTT(60) DEF Init, TypeOK

(* Every step keeps the types.                                             *)
LEMMA TypeStep == TypeOK /\ [Next]_vars => TypeOK'
  <1> SUFFICES ASSUME TypeOK, [Next]_vars PROVE TypeOK'
    OBVIOUS
  <1> USE DEF meterVars, frameVars, returnVars
  <1>err. \A e \in Errors : Err(e) \in Results
    BY ResultTypes
  <1>1. ASSUME NEW budget \in Budgets, ExecuteProgram(budget) PROVE TypeOK'
    <2>1. budget \in Nat /\ MaxRuns \in Nat
      BY ProgramsAssumption
    <2>2. Ok(0) \in Results
      BY InitialWords, ResultTypes
    <2>3. program.entry \in 0..program.n /\ program.entry \in Nat
      BY SMTT(60) DEF TypeOK, IsProgram
    <2>4. QED
      BY <1>1, <2>1, <2>2, <2>3, SMTT(60) DEF ExecuteProgram, TypeOK
  <1>2. CASE StepExceeded
    <2>1. Err("ExceededMaxInstructions") \in Results
      BY <1>err DEF Errors
    <2>2. pc \in Nat
      BY SMTT(60) DEF TypeOK, IsProgram
    <2>3. QED
      BY <1>2, <2>1, <2>2 DEF StepExceeded, ThrowError, TypeOK
  <1>3. CASE StepOverrun
    <2>1. Err("ExecutionOverrun") \in Results
      BY <1>err DEF Errors
    <2>2. pc \in Nat
      BY SMTT(60) DEF TypeOK, IsProgram
    <2>3. QED
      BY <1>3, <2>1, <2>2, SMTT(60) DEF StepOverrun, ThrowError, TypeOK
  <1>4. CASE StepData
    <2>1. Fetch /\ Charge /\ IsDataOp(program, insn)
      BY <1>4 DEF StepData
    <2>2. CASE Fault(insn, reg) # "none"
      <3>1. Err(Fault(insn, reg)) \in Results
        BY <2>1, <2>2, <1>err, FetchedInsn, FaultErrors DEF Errors, insn
      <3>2. QED
        BY <1>4, <2>1, <2>2, <3>1, FetchedInsn, Charged
           DEF StepData, ThrowError, TypeOK
    <2>3. CASE Fault(insn, reg) = "none"
      <3>1. /\ RegistersAfter(insn, reg, mem) \in [Registers -> Words]
            /\ MemoryAfter(insn, reg, mem) \in Words
        BY <2>1, <2>3, FetchedInsn, DataEffect DEF insn, TypeOK
      <3>2. pc + 1 \in 0..program.n
        BY <2>1, FetchedInsn
      <3>3. QED
        BY <1>4, <2>1, <2>3, <3>1, <3>2, FetchedInsn, Charged
           DEF StepData, GoOn, TypeOK
    <2>4. QED
      BY <2>2, <2>3
  <1>5. CASE StepLoadDoubleWord
    <2>1. Fetch /\ Charge /\ insn.op = "LD_DW_IMM" /\ ~DisableLddw(program.version)
      BY <1>5 DEF StepLoadDoubleWord
    <2>2. pc + 2 \in 0..program.n
      BY <2>1, FetchedInsn, AcceptedLoadDoubleWord DEF insn
    <2>3. insn.dst \in Registers /\ insn.imm \in Immediates
      BY <2>1, FetchedInsn, AcceptedRegisters, AcceptedInsn DEF insn, IsInsn
    <2>4. Arith(insn.op, reg[insn.dst], insn.imm) \in Words
      BY <2>1, <2>3, ArithAssumption DEF TypeOK, Words
    <2>5. reg' \in [Registers -> Words]
      BY <1>5, <2>4 DEF StepLoadDoubleWord, TypeOK
    <2>6. QED
      BY <1>5, <2>1, <2>2, <2>5, FetchedInsn, Charged
         DEF StepLoadDoubleWord, GoOn, TypeOK
  <1>6. CASE StepJump
    <2>1. Fetch /\ Charge /\ insn.op \in {"JA", "JEQ"}
      BY <1>6 DEF StepJump
    <2>2. JumpTarget(pc, insn) \in 0..program.n /\ pc + 1 \in 0..program.n
      BY <2>1, FetchedInsn, AcceptedJump DEF insn
    <2>3. QED
      BY <1>6, <2>1, <2>2, FetchedInsn, Charged DEF StepJump, GoOn, TypeOK
  <1>7. CASE StepCallReg
    <2>1. /\ Fetch /\ Charge /\ insn.op = "CALL_REG" /\ phase = "running"
          /\ CallFunction(reg, CallxTarget(reg[CallxRegister(program, insn)]), program_result)
      BY <1>7 DEF StepCallReg, Fetch
    <2>2. reg[CallxRegister(program, insn)] \in Words
      BY <2>1, FetchedInsn, AcceptedOperands, ZenonT(60) DEF insn, TypeOK
    <2>3. CallxTarget(reg[CallxRegister(program, insn)]) \in Nat
      BY <2>2, ConfigAssumption, SMTT(60) DEF CallxTarget, WrappingSub, Words
    <2>4. /\ reg \in [Registers -> Words] /\ program_result \in Results
          /\ pc \in 0..program.n-1 /\ program' = program
      BY <2>1, FetchedInsn DEF TypeOK
    <2>5. PushedTypes
      BY <2>1, <2>3, <2>4, CallFunctionType
    <2>6. QED
      BY <2>1, <2>5, FetchedInsn, Charged DEF PushedTypes, TypeOK
  <1>8. CASE StepCallImm
    <2> DEFINE sys == ResolvesToSyscall(program, insn)
               fn == ResolvesToFunction(program, pc, insn)
               target == CallTarget(program, pc, insn)
               value == SyscallValue(reg[R1])
               r == IF sys THEN [reg EXCEPT ![R0] = value] ELSE reg
               res == IF sys THEN Ok(value) ELSE program_result
    <2>1. Fetch /\ phase = "running"
      BY <1>8 DEF StepCallImm, Fetch
    <2>2. /\ reg[R1] \in Words /\ value \in Words
          /\ SyscallCost(reg[R1]) \in Nat
      BY SyscallAssumption DEF TypeOK, Registers, Words
    <2>3. r \in [Registers -> Words] /\ res \in Results
      BY <2>2, ResultTypes DEF TypeOK
    <2>4. /\ remaining' \in Nat /\ previous_instruction_meter' \in Nat
          /\ due_insn_count' \in Nat /\ registers' \in [Registers -> Words]
      <3>1. CASE sys
        <4>1. DispatchSyscall
          BY <1>8, <3>1 DEF StepCallImm
        <4>2. remaining' \in Nat
          BY <2>2, <4>1, SMTT(60) DEF DispatchSyscall, SaturatingSub, TypeOK
        <4>3. registers' \in [Registers -> Words]
          BY <4>1 DEF DispatchSyscall, TypeOK, Registers
        <4>4. QED
          BY <4>1, <4>2, <4>3 DEF DispatchSyscall
      <3>2. CASE ~sys
        BY <1>8, <3>2, SMTT(60) DEF StepCallImm, Charge, TypeOK
      <3>3. QED
        BY <3>1, <3>2
    <2>5. PushedTypes
      <3>1. CASE sys /\ SyscallFails(reg[R1])
        <4>1. Err("SyscallError") \in Results
          BY <1>err DEF Errors
        <4>2. QED
          BY <1>8, <3>1, <4>1 DEF StepCallImm, PushedTypes, TypeOK
      <3>2. CASE ~(sys /\ SyscallFails(reg[R1])) /\ fn
        <4>1. target \in Nat
          BY <2>1, <3>2, FetchedInsn DEF ResolvesToFunction, CallTarget, IsProgram
        <4>2. CallFunction(r, target, res)
          BY <1>8, <3>2 DEF StepCallImm
        <4>3. QED
          BY <2>1, <2>3, <4>1, <4>2, FetchedInsn, CallFunctionType
      <3>3. CASE ~(sys /\ SyscallFails(reg[R1])) /\ ~fn /\ sys
        <4>1. /\ reg' = r /\ program_result' = res /\ GoOn(pc + 1)
              /\ UNCHANGED <<frameVars, mem>>
          BY <1>8, <3>3 DEF StepCallImm
        <4> HIDE DEF r, res
        <4>2. pc + 1 \in 0..program.n
          BY <2>1, FetchedInsn
        <4>3. QED
          BY <2>1, <2>3, <4>1, <4>2 DEF GoOn, PushedTypes, TypeOK
      <3>4. CASE ~sys /\ ~fn
        <4>1. Err("UnsupportedInstruction") \in Results /\ pc \in Nat
          BY <2>1, <1>err, FetchedInsn DEF Errors
        <4>2. /\ ThrowError("UnsupportedInstruction")
              /\ UNCHANGED <<frameVars, mem, reg, pc>>
          BY <1>8, <3>4 DEF StepCallImm
        <4>3. QED
          BY <2>1, <4>1, <4>2 DEF ThrowError, PushedTypes, TypeOK
      <3>5. QED
        BY <3>1, <3>2, <3>3, <3>4
    <2>6. QED
      BY <2>1, <2>4, <2>5, FetchedInsn DEF PushedTypes, TypeOK
  <1>9. CASE StepExit
    <2>1. Fetch /\ Charge /\ insn.op = "EXIT"
      BY <1>9 DEF StepExit
    <2>2. CASE call_depth = 0
      <3>1. Err("ExceededMaxInstructions") \in Results /\ Ok(reg[R0]) \in Results
        BY <1>err, ResultTypes DEF Errors, TypeOK, Registers
      <3>2. /\ phase' = "stopped" /\ registers11' \in Nat
            /\ program_result' \in Results /\ UNCHANGED <<call_depth, reg, pc>>
        <4>1. registers11 \in Nat /\ pc \in Nat
          BY <2>1, FetchedInsn DEF TypeOK
        <4>2. QED
          BY <1>9, <2>2, <3>1, <4>1 DEF StepExit, ThrowError
      <3>3. call_frames' = call_frames /\ mem' = mem
        BY <1>9 DEF StepExit
      <3>4. QED
        BY <2>1, <3>2, <3>3, FetchedInsn, Charged DEF TypeOK
    <2>3. CASE call_depth # 0
      <3>1. call_depth - 1 \in 0..MaxCallDepth-1
        BY <2>3, ConfigAssumption, SMTT(60) DEF TypeOK
      <3>2. call_frames[call_depth - 1] \in Frames
        BY <3>1 DEF TypeOK
      <3>3. [reg EXCEPT ![R6] = call_frames[call_depth - 1].r6,
                        ![FP] = call_frames[call_depth - 1].fp] \in [Registers -> Words]
        BY <3>2 DEF TypeOK, Frames
      <3>4. Err("CallOutsideTextSegment") \in Results
        BY <1>err DEF Errors
      <3>5. call_depth' \in 0..MaxCallDepth /\ reg' \in [Registers -> Words]
        BY <1>9, <2>3, <3>1, <3>3, ConfigAssumption, SMTT(60) DEF StepExit
      <3>6. /\ phase' \in {"running", "stopped"} /\ registers11' \in Nat
            /\ program_result' \in Results /\ pc' \in 0..program.n
        <4>1. /\ registers11 \in Nat /\ pc \in Nat /\ pc \in 0..program.n
              /\ phase = "running" /\ program_result \in Results
          BY <2>1, FetchedInsn DEF Fetch, TypeOK
        <4>2. IsPcInProgram(program, call_frames[call_depth - 1].target_pc)
                 => call_frames[call_depth - 1].target_pc \in 0..program.n
          BY <2>1, <3>2, FetchedInsn, SMTT(60) DEF IsPcInProgram, Frames
        <4>3. QED
          BY <1>9, <2>3, <3>4, <4>1, <4>2 DEF StepExit, ThrowError, GoOn
      <3>7. call_frames' = call_frames /\ mem' = mem
        BY <1>9 DEF StepExit
      <3>8. QED
        BY <2>1, <3>5, <3>6, <3>7, FetchedInsn, Charged DEF TypeOK
    <2>4. QED
      BY <2>2, <2>3
  <1>10. CASE StepUnsupported
    <2>1. Fetch /\ Charge
      BY <1>10 DEF StepUnsupported
    <2>2. Err("UnsupportedInstruction") \in Results
      BY <1>err DEF Errors
    <2>3. QED
      BY <1>10, <2>1, <2>2, FetchedInsn, Charged
         DEF StepUnsupported, ThrowError, TypeOK
  <1>11. CASE Finish
    <2>1. Ok(0) \in Results
      BY InitialWords, ResultTypes
    <2>2. remaining' \in Nat /\ instruction_count' \in Nat
      BY <1>11, SMTT(60) DEF Finish, SaturatingSub, TypeOK
    <2>3. QED
      BY <1>11, <2>1, <2>2 DEF Finish, TypeOK
  <1>12. CASE UNCHANGED vars
    BY <1>12 DEF vars, TypeOK
  <1>13. QED
    BY <1>1, <1>2, <1>3, <1>4, <1>5, <1>6, <1>7, <1>8, <1>9, <1>10, <1>11, <1>12
       DEF Next, Step

-----------------------------------------------------------------------------
(* The meter.                                                              *)

(* Every step keeps the two copies of the meter together and never makes   *)
(* more due than is left.                                                  *)
LEMMA MeterStep == TypeOK /\ MeterConsistent /\ [Next]_vars => MeterConsistent'
  <1> SUFFICES ASSUME TypeOK, MeterConsistent, [Next]_vars PROVE MeterConsistent'
    OBVIOUS
  <1> USE DEF meterVars, returnVars
  <1>0. /\ remaining \in Nat /\ previous_instruction_meter \in Nat
        /\ due_insn_count \in Nat /\ initial_insn_count \in Nat
    BY DEF TypeOK
  <1>1. ASSUME NEW budget \in Budgets, ExecuteProgram(budget) PROVE MeterConsistent'
    BY <1>1, ProgramsAssumption DEF ExecuteProgram, MeterConsistent
  <1>2. CASE StepExceeded
    BY <1>2 DEF StepExceeded, MeterConsistent
  <1>3. CASE StepOverrun
    BY <1>0, <1>3 DEF StepOverrun, MeterConsistent
  <1>4. ASSUME Fetch, Charge PROVE MeterConsistent'
    BY <1>0, <1>4 DEF Fetch, Charge, MeterConsistent
  <1>5. CASE StepCallImm
    <2>1. Fetch /\ (DispatchSyscall \/ Charge)
      BY <1>5 DEF StepCallImm
    <2>2. CASE DispatchSyscall
      <3>1. SyscallCost(reg[R1]) \in Nat
        BY SyscallAssumption DEF TypeOK, Registers, Words
      <3>2. /\ remaining = previous_instruction_meter
            /\ due_insn_count < previous_instruction_meter
            /\ remaining <= initial_insn_count
        BY <2>1 DEF Fetch, MeterConsistent
      <3>3. remaining' \in Nat /\ remaining' <= remaining
        BY <1>0, <2>2, <3>1, <3>2 DEF DispatchSyscall, SaturatingSub
      <3>4. /\ previous_instruction_meter' = remaining' /\ due_insn_count' = 0
            /\ initial_insn_count' = initial_insn_count
        BY <2>1, <2>2 DEF DispatchSyscall, Fetch
      <3>5. QED
        BY <1>0, <3>2, <3>3, <3>4 DEF MeterConsistent
    <2>3. QED
      BY <2>1, <2>2, <1>4
  <1>6. CASE Finish
    BY <1>6 DEF Finish, MeterConsistent
  <1>7. CASE UNCHANGED vars
    BY <1>7 DEF vars, MeterConsistent
  <1>8. QED
    BY <1>1, <1>2, <1>3, <1>4, <1>5, <1>6, <1>7
       DEF Next, Step, StepData, StepLoadDoubleWord, StepJump, StepCallReg, StepExit,
           StepUnsupported

-----------------------------------------------------------------------------
(* The call depth.                                                         *)

DepthInv == FreeFrame /\ SucceedsAtDepthZero

(* What a step keeps of it.                                                *)
DepthKept == FreeFrame' /\ (SucceedsAtDepthZero => SucceedsAtDepthZero')

(* Where a call leaves the depth: only one that begins with every frame    *)
(* taken finds none.                                                       *)
LEMMA CallFunctionDepth ==
    ASSUME TypeOK, FreeFrame, phase = "running", result' = result, leftover' = leftover,
           NEW r, NEW target, NEW res, CallFunction(r, target, res)
    PROVE  DepthKept
  <1>1. /\ call_depth \in 0..MaxCallDepth /\ leftover \in 0..MaxCallDepth
        /\ MaxCallDepth \in Nat
    BY ConfigAssumption DEF TypeOK
  <1>2. CASE call_depth < MaxCallDepth
    <2>1. /\ phase' = "running" => call_depth' < MaxCallDepth
          /\ phase' \in {"running", "stopped"}
          /\ phase' = "stopped" => program_result'.tag = "Err"
      BY <1>1, <1>2, SMTT(60) DEF CallFunction, PushFrame, ThrowError, GoOn, Err
    <2>2. QED
      BY <2>1 DEF DepthKept, FreeFrame, SucceedsAtDepthZero
  <1>3. CASE ~(call_depth < MaxCallDepth)
    <2>1. phase' = "panicked"
      BY <1>3 DEF CallFunction
    <2>2. leftover = MaxCallDepth
      BY <1>1, <1>3, SMTT(60) DEF FreeFrame
    <2>3. QED
      BY <2>1, <2>2 DEF DepthKept, FreeFrame, SucceedsAtDepthZero
  <1>4. QED
    BY <1>2, <1>3

(* A new execution begins with a frame free unless all are taken already.  *)
LEMMA StartsFree ==
    ASSUME NEW budget, ExecuteProgram(budget)
    PROVE  FreeFrame'
  BY DEF ExecuteProgram, FreeFrame, frameVars

(* Every step keeps a frame free while the interpreter runs, and an        *)
(* execution succeeds at depth zero only.                                  *)
LEMMA DepthStep == TypeOK /\ FreeFrame /\ [Next]_vars => DepthKept
  <1> SUFFICES ASSUME TypeOK, FreeFrame, [Next]_vars PROVE DepthKept
    OBVIOUS
  <1> USE DEF frameVars, returnVars
  <1>0. call_depth \in 0..MaxCallDepth /\ MaxCallDepth \in Nat \ {0}
    BY ConfigAssumption DEF TypeOK
  <1>1. ASSUME NEW budget \in Budgets, ExecuteProgram(budget) PROVE DepthKept
    <2>1. phase' = "running"
      BY <1>1 DEF ExecuteProgram
    <2>2. QED
      BY <1>1, <2>1, StartsFree DEF DepthKept, SucceedsAtDepthZero
  <1>2. ASSUME phase = "running", phase' \in {"running", "stopped"},
               call_depth' = call_depth, result' = result, leftover' = leftover,
               phase' = "stopped" => program_result'.tag = "Err"
        PROVE  DepthKept
    BY <1>2 DEF DepthKept, FreeFrame, SucceedsAtDepthZero
  <1>3. CASE StepExceeded
    BY <1>2, <1>3 DEF StepExceeded, ThrowError, Err
  <1>4. CASE StepOverrun
    BY <1>2, <1>4 DEF StepOverrun, ThrowError, Err
  <1>5. CASE StepData
    BY <1>2, <1>5 DEF StepData, Fetch, ThrowError, GoOn, Err
  <1>6. CASE StepLoadDoubleWord
    BY <1>2, <1>6 DEF StepLoadDoubleWord, Fetch, GoOn
  <1>7. CASE StepJump
    BY <1>2, <1>7 DEF StepJump, Fetch, GoOn
  <1>8. CASE StepCallReg
    BY <1>8, CallFunctionDepth DEF StepCallReg, Fetch
  <1>9. CASE StepCallImm
    <2> DEFINE r == IF ResolvesToSyscall(program, insn)
                    THEN [reg EXCEPT ![R0] = SyscallValue(reg[R1])] ELSE reg
               res == IF ResolvesToSyscall(program, insn)
                      THEN Ok(SyscallValue(reg[R1])) ELSE program_result
    <2>1. phase = "running" /\ result' = result /\ leftover' = leftover
      BY <1>9 DEF StepCallImm, Fetch
    <2>2. \/ CallFunction(r, CallTarget(program, pc, insn), res)
          \/ /\ phase' \in {"running", "stopped"} /\ call_depth' = call_depth
             /\ phase' = "stopped" => program_result'.tag = "Err"
      BY <1>9, <2>1 DEF StepCallImm, ThrowError, GoOn, Err
    <2>3. QED
      BY <1>2, <2>1, <2>2, CallFunctionDepth
  <1>10. CASE StepExit
    <2>1. CASE call_depth = 0
      <3>1. /\ call_depth' = 0 /\ phase' = "stopped"
        BY <1>10, <2>1 DEF StepExit, ThrowError
      <3>2. QED
        BY <3>1 DEF DepthKept, FreeFrame, SucceedsAtDepthZero
    <2>2. CASE call_depth # 0
      <3>1. /\ call_depth' = call_depth - 1 /\ phase' \in {"running", "stopped"}
            /\ phase' = "stopped" => program_result'.tag = "Err"
        BY <1>10, <2>2, SMTT(60) DEF StepExit, Fetch, ThrowError, GoOn, Err
      <3>2. call_depth' < MaxCallDepth
        BY <1>0, <2>2, <3>1
      <3>3. QED
        BY <3>1, <3>2 DEF DepthKept, FreeFrame, SucceedsAtDepthZero
    <2>3. QED
      BY <2>1, <2>2
  <1>11. CASE StepUnsupported
    BY <1>2, <1>11 DEF StepUnsupported, Fetch, ThrowError, Err
  <1>12. CASE Finish
    BY <1>12 DEF Finish, DepthKept, FreeFrame, SucceedsAtDepthZero
  <1>13. CASE UNCHANGED vars
    BY <1>13 DEF vars, DepthKept, FreeFrame, SucceedsAtDepthZero
  <1>14. QED
    BY <1>1, <1>3, <1>4, <1>5, <1>6, <1>7, <1>8, <1>9, <1>10, <1>11, <1>12, <1>13
       DEF Next, Step

-----------------------------------------------------------------------------
(* What a new execution starts from.                                       *)

(* The frame pointer and the callee-saved register EbpfVm::new chose.      *)
KeptFramePointer == registers[FP] = InitialFramePointer(program.version)
KeptR6 == registers[R6] = 0

(* vm.registers is written for a syscall only, and then only its first.    *)
LEMMA RegistersKept ==
    ASSUME TypeOK, [Next]_vars
    PROVE  program' = program /\ registers'[R6] = registers[R6]
           /\ registers'[FP] = registers[FP]
  <1>1. program' = program /\ (registers' = registers \/ DispatchSyscall)
    BY DEF Next, Step, ExecuteProgram, StepExceeded, StepOverrun, StepData,
           StepLoadDoubleWord, StepJump, StepCallReg, StepCallImm, StepExit,
           StepUnsupported, Finish, Fetch, Charge, vars
  <1>2. QED
    BY <1>1, SMTT(60) DEF DispatchSyscall, TypeOK, Registers, R0, R1, R6, FP

-----------------------------------------------------------------------------
(* The call frames.                                                        *)

(* The frame pointers of the active calls.                                 *)
PointersNested ==
    /\ FramePointer(0) = InitialFramePointer(program.version)
    /\ \A i \in 0..call_depth-1 :
          FramePointer(i + 1) = WrappingAdd(FramePointer(i), FrameBump(program.version))

(* A step that leaves the frames and the frame pointer alone.              *)
LEMMA FramesKept ==
    ASSUME FramesNested, phase' = "running" => phase = "running", program' = program,
           call_depth' = call_depth, call_frames' = call_frames, leftover' = leftover,
           ~ManualStackFrameBump(program.version) => reg'[FP] = reg[FP]
    PROVE  FramesNested'
  <1>1. \A i : ReturnsBehindCall(i)' <=> ReturnsBehindCall(i)
    BY DEF ReturnsBehindCall
  <1>2. ~ManualStackFrameBump(program.version) => \A i : FramePointer(i)' = FramePointer(i)
    BY DEF FramePointer
  <1>3. QED
    BY <1>1, <1>2 DEF FramesNested

(* A call pushes the frame of its caller.                                  *)
LEMMA FramesPushed ==
    ASSUME TypeOK, call_depth < MaxCallDepth, FramesNested, phase = "running",
           program' = program, leftover' = leftover,
           pc \in 0..program.n-1, insn.op \in {"CALL_REG", "CALL_IMM"},
           NEW r \in [Registers -> Words], r[FP] = reg[FP],
           NEW target, NEW res, PushFrame(r, target, res)
    PROVE  FramesNested'
  <1>1. call_depth \in 0..MaxCallDepth-1 /\ MaxCallDepth \in Nat
    BY ConfigAssumption, SMTT(60) DEF TypeOK
  <1>d. PICK d \in 0..MaxCallDepth-1 : d = call_depth
    BY <1>1
  <1> DEFINE frame == [r6 |-> r[R6], fp |-> r[FP], target_pc |-> pc + 1]
  <1>3. /\ call_depth' = d + 1
        /\ call_frames' = [call_frames EXCEPT ![d] = frame]
    BY <1>d DEF PushFrame
  <1>4. /\ call_frames'[d] = frame
        /\ \A i \in 0..d-1 : call_frames'[i] = call_frames[i]
    BY <1>1, <1>d, <1>3, SMTT(60) DEF TypeOK
  <1>7. ReturnsBehindCall(d)'
    <2>1. program.n \in Nat /\ (pc + 1) - 1 = pc
      BY SMTT(60) DEF TypeOK, IsProgram
    <2>2. call_frames'[d].target_pc - 1 = pc
      BY <1>4, <2>1
    <2>3. QED
      BY <2>1, <2>2 DEF ReturnsBehindCall, insn
  <1>8. \A i \in 0..d-1 : ReturnsBehindCall(i)'
    BY <1>d, <1>4 DEF FramesNested, ReturnsBehindCall
  <1>9. \A i \in 0..call_depth'-1 : ReturnsBehindCall(i)'
    <2>1. \A i \in 0..(d+1)-1 : i = d \/ i \in 0..d-1
      BY <1>d
    <2>2. QED
      BY <1>3, <1>7, <1>8, <2>1
  <1>10. ASSUME phase' = "running", leftover = 0, ~ManualStackFrameBump(program.version)
         PROVE  PointersNested'
    <2>1. reg' = [r EXCEPT ![FP] = WrappingAdd(@, FrameBump(program.version))]
      BY <1>10, <1>d DEF PushFrame, ThrowError
    <2>2. \A i \in 0..d : FramePointer(i)' = FramePointer(i)
      BY <1>1, <1>d, <1>3, <1>4, SMTT(60) DEF FramePointer
    <2>3. FramePointer(d + 1)' = WrappingAdd(FramePointer(d), FrameBump(program.version))
      <3>1. ~(d + 1 < call_depth') /\ ~(d < call_depth)
        BY <1>1, <1>d, <1>3
      <3>2. FramePointer(d + 1)' = reg'[FP] /\ FramePointer(d) = reg[FP]
        BY <3>1 DEF FramePointer
      <3>3. reg'[FP] = WrappingAdd(r[FP], FrameBump(program.version))
        BY <2>1 DEF Registers
      <3>4. QED
        BY <3>2, <3>3
    <2>4. /\ FramePointer(0) = InitialFramePointer(program.version)
          /\ \A i \in 0..d-1 :
                FramePointer(i + 1) = WrappingAdd(FramePointer(i), FrameBump(program.version))
      BY <1>d, <1>10 DEF FramesNested
    <2> HIDE DEF frame
    <2>5. ASSUME NEW i \in 0..d
          PROVE  FramePointer(i + 1)' =
                     WrappingAdd(FramePointer(i)', FrameBump(program.version))
      <3>1. CASE i = d
        BY <1>1, <2>2, <2>3, <3>1
      <3>2. CASE i # d
        <4>1. i \in 0..d-1 /\ i + 1 \in 0..d
          BY <1>1, <3>2
        <4>2. /\ FramePointer(i + 1)' = FramePointer(i + 1)
              /\ FramePointer(i)' = FramePointer(i)
          BY <2>2, <4>1
        <4>3. QED
          BY <2>4, <4>1, <4>2
      <3>3. QED
        BY <3>1, <3>2
    <2>6. 0 \in 0..d /\ 0..(d+1)-1 = 0..d
      BY <1>1, <1>d
    <2>7. QED
      BY <1>3, <2>2, <2>4, <2>5, <2>6 DEF PointersNested
  <1>11. QED
    BY <1>9, <1>10 DEF FramesNested, PointersNested

(* A return restores the frame pointer its caller had.                     *)
LEMMA FramesPopped ==
    ASSUME TypeOK, FramesNested, phase = "running", program' = program,
           leftover' = leftover, call_depth # 0, call_depth' = call_depth - 1,
           call_frames' = call_frames, reg'[FP] = call_frames[call_depth - 1].fp
    PROVE  FramesNested'
  <1>1. call_depth \in Nat \ {0}
    BY ConfigAssumption, SMTT(60) DEF TypeOK
  <1>2. \A i \in 0..call_depth-1 :
           /\ FramePointer(i)' = FramePointer(i)
           /\ ReturnsBehindCall(i)' <=> ReturnsBehindCall(i)
    BY <1>1 DEF FramePointer, ReturnsBehindCall
  <1>3. \A i \in 0..call_depth'-1 : i \in 0..call_depth-1 /\ i + 1 \in 0..call_depth-1
    BY <1>1
  <1>4. \A i \in 0..call_depth'-1 : ReturnsBehindCall(i)'
    BY <1>2, <1>3 DEF FramesNested
  <1>5. ASSUME phase' = "running", leftover = 0, ~ManualStackFrameBump(program.version)
        PROVE  PointersNested'
    <2>1. PointersNested
      BY <1>5 DEF FramesNested, PointersNested
    <2>2. FramePointer(0)' = InitialFramePointer(program.version)
      BY <1>1, <1>2, <2>1 DEF PointersNested
    <2>3. ASSUME NEW i \in 0..call_depth'-1
          PROVE  FramePointer(i + 1)' =
                     WrappingAdd(FramePointer(i)', FrameBump(program.version))
      BY <1>2, <1>3, <2>1 DEF PointersNested
    <2>4. QED
      BY <2>2, <2>3 DEF PointersNested
  <1>6. QED
    BY <1>4, <1>5 DEF FramesNested, PointersNested

(* Every step keeps the frames of the active calls nested.                 *)
LEMMA FramesStep ==
    TypeOK /\ KeptFramePointer /\ FramesNested /\ [Next]_vars => FramesNested'
  <1> SUFFICES ASSUME TypeOK, KeptFramePointer, FramesNested, [Next]_vars
               PROVE  FramesNested'
    OBVIOUS
  <1> USE DEF frameVars, returnVars
  <1>1. ASSUME NEW budget \in Budgets, ExecuteProgram(budget) PROVE FramesNested'
    <2>1. /\ program' = program /\ call_depth' = call_depth /\ call_frames' = call_frames
          /\ leftover' = call_depth /\ reg' = registers
      BY <1>1 DEF ExecuteProgram
    <2>2. \A i \in 0..call_depth'-1 : ReturnsBehindCall(i)'
      BY <2>1 DEF FramesNested, ReturnsBehindCall
    <2>3. ASSUME leftover' = 0 PROVE PointersNested'
      <3>1. call_depth' = 0 /\ 0..call_depth'-1 = {}
        BY <2>1, <2>3
      <3>2. FramePointer(0)' = reg'[FP]
        BY <3>1 DEF FramePointer
      <3>3. QED
        BY <2>1, <3>1, <3>2 DEF PointersNested, KeptFramePointer
    <2>4. QED
      BY <2>2, <2>3 DEF FramesNested, PointersNested
  <1>3. CASE StepExceeded
    BY <1>3, FramesKept DEF StepExceeded, ThrowError
  <1>4. CASE StepOverrun
    BY <1>4, FramesKept DEF StepOverrun, ThrowError
  <1>5. CASE StepData
    <2>1. /\ Fetch /\ phase = "running" /\ program' = program /\ leftover' = leftover
          /\ call_depth' = call_depth /\ call_frames' = call_frames
      BY <1>5 DEF StepData, Fetch
    <2>2. CASE Fault(insn, reg) # "none"
      BY <1>5, <2>1, <2>2, FramesKept DEF StepData
    <2>3. CASE Fault(insn, reg) = "none"
      <3>1. /\ IsDataOp(program, insn) /\ reg' = RegistersAfter(insn, reg, mem)
            /\ reg \in [Registers -> Words] /\ mem \in Words
            /\ IsProgram(program) /\ Accepts(program) /\ pc \in 0..program.n-1
        BY <1>5, <2>1, <2>3, FetchedInsn DEF StepData, TypeOK
      <3>2. ~ManualStackFrameBump(program.version) => reg'[FP] = reg[FP]
        <4>1. ~ManualStackFrameBump(program.version) =>
                 RegistersAfter(insn, reg, mem)[FP] = reg[FP]
          <5>1. PICK p, at : p = program /\ at = pc
            OBVIOUS
          <5>2. insn = p.text[at]
            BY <5>1 DEF insn
          <5>3. /\ IsProgram(p) /\ Accepts(p) /\ at \in 0..p.n-1 /\ IsDataOp(p, p.text[at])
                /\ Fault(p.text[at], reg) = "none"
            BY <2>3, <3>1, <5>1, <5>2
          <5>4. ~ManualStackFrameBump(p.version) =>
                   RegistersAfter(p.text[at], reg, mem)[FP] = reg[FP]
            BY <3>1, <5>3, DataEffect, SMTT(60)
          <5>5. QED
            BY <5>1, <5>2, <5>4
        <4>2. QED
          BY <3>1, <4>1
      <3>3. QED
        BY <2>1, <3>2, FramesKept
    <2>4. QED
      BY <2>2, <2>3
  <1>6. CASE StepLoadDoubleWord
    <2>1. /\ Fetch /\ phase = "running" /\ program' = program /\ leftover' = leftover
          /\ call_depth' = call_depth /\ call_frames' = call_frames
          /\ insn.op = "LD_DW_IMM"
      BY <1>6 DEF StepLoadDoubleWord, Fetch
    <2>2. insn.dst \in Registers /\ (insn.dst = FP => ManualStackFrameBump(program.version))
      BY <2>1, FetchedInsn, AcceptedRegisters DEF insn
    <2>3. ~ManualStackFrameBump(program.version) => reg'[FP] = reg[FP]
      BY <1>6, <2>2 DEF StepLoadDoubleWord, TypeOK, Registers
    <2>4. QED
      BY <2>1, <2>3, FramesKept
  <1>7. CASE StepJump
    BY <1>7, FramesKept DEF StepJump, Fetch
  <1>c. ASSUME Fetch, insn.op \in {"CALL_REG", "CALL_IMM"},
               NEW r \in [Registers -> Words], r[FP] = reg[FP],
               NEW target, NEW res, CallFunction(r, target, res)
        PROVE  FramesNested'
    <2>1. /\ phase = "running" /\ program' = program /\ leftover' = leftover
          /\ pc \in 0..program.n-1
      BY <1>c, FetchedInsn DEF Fetch
    <2>2. CASE call_depth < MaxCallDepth
      BY <1>c, <2>1, <2>2, FramesPushed DEF CallFunction
    <2>3. CASE ~(call_depth < MaxCallDepth)
      <3>1. reg' = r /\ call_depth' = call_depth /\ call_frames' = call_frames
        BY <1>c, <2>3 DEF CallFunction
      <3>2. QED
        BY <1>c, <2>1, <3>1, FramesKept
    <2>4. QED
      BY <2>2, <2>3
  <1>8. CASE StepCallReg
    <2>1. /\ Fetch /\ insn.op \in {"CALL_REG", "CALL_IMM"} /\ reg \in [Registers -> Words]
          /\ CallFunction(reg, CallxTarget(reg[CallxRegister(program, insn)]), program_result)
      BY <1>8 DEF StepCallReg, TypeOK
    <2>2. QED
      BY <1>c, <2>1
  <1>9. CASE StepCallImm
    <2> DEFINE r == IF ResolvesToSyscall(program, insn)
                    THEN [reg EXCEPT ![R0] = SyscallValue(reg[R1])] ELSE reg
               res == IF ResolvesToSyscall(program, insn)
                      THEN Ok(SyscallValue(reg[R1])) ELSE program_result
    <2>1. /\ Fetch /\ phase = "running" /\ program' = program
          /\ leftover' = leftover /\ insn.op \in {"CALL_REG", "CALL_IMM"}
      BY <1>9 DEF StepCallImm, Fetch
    <2>4. r \in [Registers -> Words] /\ r[FP] = reg[FP]
      <3>1. reg \in [Registers -> Words] /\ reg[R1] \in Words
        BY DEF TypeOK, Registers
      <3>2. SyscallValue(reg[R1]) \in Words
        BY <3>1, SyscallAssumption DEF Words
      <3>3. QED
        BY <3>1, <3>2, SMTT(60) DEF Registers, R0, R1, R6, FP
    <2>5. \/ CallFunction(r, CallTarget(program, pc, insn), res)
          \/ /\ reg' \in {r, reg} /\ call_depth' = call_depth
             /\ call_frames' = call_frames
      BY <1>9 DEF StepCallImm
    <2> HIDE DEF r, res
    <2>6. CASE CallFunction(r, CallTarget(program, pc, insn), res)
      BY <1>c, <2>1, <2>4, <2>6
    <2>7. CASE reg' \in {r, reg} /\ call_depth' = call_depth /\ call_frames' = call_frames
      BY <2>1, <2>4, <2>7, FramesKept
    <2>8. QED
      BY <2>5, <2>6, <2>7
  <1>10. CASE StepExit
    <2>1. /\ Fetch /\ phase = "running" /\ program' = program /\ leftover' = leftover
          /\ call_frames' = call_frames
      BY <1>10 DEF StepExit, Fetch
    <2>2. CASE call_depth = 0
      <3>1. call_depth' = call_depth /\ reg' = reg
        BY <1>10, <2>2 DEF StepExit
      <3>2. QED
        BY <2>1, <3>1, FramesKept
    <2>3. CASE call_depth # 0
      <3>1. /\ call_depth' = call_depth - 1
            /\ reg'[FP] = call_frames[call_depth - 1].fp
        BY <1>10, <2>3 DEF StepExit, TypeOK, Registers
      <3>2. QED
        BY <2>1, <2>3, <3>1, FramesPopped
    <2>4. QED
      BY <2>2, <2>3
  <1>11. CASE StepUnsupported
    BY <1>11, FramesKept DEF StepUnsupported, Fetch
  <1>12. CASE Finish
    BY <1>12, FramesKept DEF Finish
  <1>13. CASE UNCHANGED vars
    BY <1>13, FramesKept DEF vars
  <1>14. QED
    BY <1>1, <1>3, <1>4, <1>5, <1>6, <1>7, <1>8, <1>9, <1>10, <1>11, <1>12, <1>13
       DEF Next, Step

-----------------------------------------------------------------------------
(* Panics.                                                                 *)

NeverInvalid == program_result # Err("InvalidInstruction")

(* No instruction of an accepted program can panic.                        *)
LEMMA NoPanic == TypeOK /\ pc < program.n => ~Panics
  <1> SUFFICES ASSUME TypeOK, pc < program.n PROVE ~Panics
    OBVIOUS
  <1>1. IsProgram(program) /\ Accepts(program) /\ pc \in 0..program.n-1
    BY SMTT(60) DEF TypeOK, IsProgram
  <1>2. insn.op \in DataOps \cup {"LD_DW_IMM", "JEQ"} => insn.dst \in Registers
    BY <1>1, AcceptedRegisters DEF insn, DataOps, ArithOps
  <1>3. insn.op \in {"DIV_REG", "SDIV_REG", "LDX", "ST"} => insn.src \in Registers
    BY <1>1, AcceptedRegisters DEF insn
  <1>4. /\ insn.op = "DIV_IMM" => insn.imm # 0
        /\ insn.op = "CALL_REG" => CallxRegister(program, insn) \in Registers
    BY <1>1, AcceptedOperands DEF insn
  <1>5. insn.op = "LD_DW_IMM" /\ ~DisableLddw(program.version) => ~(pc + 1 >= program.n)
    BY <1>1, AcceptedLoadDoubleWord DEF insn, IsProgram
  <1>6. QED
    BY <1>2, <1>3, <1>4, <1>5 DEF Panics

(* No step of an accepted program raises InvalidInstruction.               *)
LEMMA NeverInvalidStep == TypeOK /\ NeverInvalid /\ [Next]_vars => NeverInvalid'
  <1> SUFFICES ASSUME TypeOK, NeverInvalid, [Next]_vars PROVE NeverInvalid'
    OBVIOUS
  <1>1. /\ \A v : Ok(v) # Err("InvalidInstruction")
        /\ \A e : e # "InvalidInstruction" => Err(e) # Err("InvalidInstruction")
    BY DEF Ok, Err
  <1>2. CASE StepData
    <2>1. Fault(insn, reg) # "InvalidInstruction"
      BY <1>2, FetchedInsn, FaultErrors DEF StepData, insn
    <2>2. QED
      BY <1>1, <1>2, <2>1 DEF StepData, ThrowError, NeverInvalid
  <1>3. CASE StepCallImm
    BY <1>1, <1>3 DEF StepCallImm, CallFunction, PushFrame, ThrowError, NeverInvalid
  <1>4. CASE StepCallReg \/ StepExit
    BY <1>1, <1>4 DEF StepCallReg, StepExit, CallFunction, PushFrame, ThrowError,
                      NeverInvalid
  <1>5. CASE StepExceeded \/ StepOverrun \/ StepUnsupported
    BY <1>1, <1>5 DEF StepExceeded, StepOverrun, StepUnsupported, ThrowError, NeverInvalid
  <1>6. CASE StepLoadDoubleWord \/ StepJump
    BY <1>6 DEF StepLoadDoubleWord, StepJump, NeverInvalid
  <1>7. CASE Finish \/ \E budget \in Budgets : ExecuteProgram(budget)
    BY <1>1, <1>7 DEF Finish, ExecuteProgram, NeverInvalid
  <1>8. CASE UNCHANGED vars
    BY <1>8 DEF vars, NeverInvalid
  <1>9. QED
    BY <1>2, <1>3, <1>4, <1>5, <1>6, <1>7, <1>8 DEF Next, Step

-----------------------------------------------------------------------------
(* The invariant and the theorems.                                         *)

(* What every step preserves on its own, whatever calls an execution       *)
(* begins with.  TypeOK needs nothing else: a call that finds no frame     *)
(* writes none.                                                            *)
RefInv == TypeOK /\ MeterConsistent /\ KeptFramePointer /\ KeptR6

(* What every step preserves besides.  FramesNested needs                  *)
(* KeptFramePointer, as an execution starts from the registers             *)
(* EbpfVm::new chose; it speaks of the calls left over too, as the next    *)
(* execution returns from them.                                            *)
IndInv == RefInv /\ DepthInv /\ FramesNested /\ NeverInvalid

(* A new VM satisfies the invariants.                                      *)
LEMMA RefInvInit == Init => RefInv
  <1> SUFFICES ASSUME Init PROVE RefInv
    OBVIOUS
  <1>1. MeterConsistent
    BY DEF Init, MeterConsistent
  <1>2. KeptFramePointer /\ KeptR6
    BY SMTT(60) DEF Init, KeptFramePointer, KeptR6, Registers, R6, FP
  <1>3. QED
    BY <1>1, <1>2, TypeInit DEF RefInv

LEMMA IndInvInit == Init => IndInv
  <1> SUFFICES ASSUME Init PROVE IndInv
    OBVIOUS
  <1>1. DepthInv
    BY DEF Init, DepthInv, FreeFrame, SucceedsAtDepthZero
  <1>2. FramesNested
    <2>1. 0..call_depth-1 = {} /\ phase # "running"
      BY DEF Init
    <2>2. QED
      BY <2>1 DEF FramesNested
  <1>3. NeverInvalid
    BY DEF Init, NeverInvalid, Ok, Err
  <1>4. QED
    BY <1>1, <1>2, <1>3, RefInvInit DEF IndInv

(* Every step preserves them.                                              *)
LEMMA RefInvStep == RefInv /\ [Next]_vars => RefInv'
  BY TypeStep, MeterStep, RegistersKept DEF RefInv, KeptFramePointer, KeptR6

LEMMA IndInvStep == IndInv /\ [Next]_vars => IndInv'
  BY RefInvStep, DepthStep, FramesStep, NeverInvalidStep
     DEF IndInv, RefInv, DepthInv, DepthKept

(* The invariant holds throughout.                                         *)
THEOREM Invariance == Spec => []IndInv
  BY IndInvInit, IndInvStep, PTL DEF Spec

(* Every variable keeps its type in every execution of accepted programs.  *)
THEOREM TypeCorrect == Spec => []TypeOK
  <1>1. IndInv => TypeOK
    BY DEF IndInv, RefInv
  <1>2. QED
    BY <1>1, Invariance, PTL

(* The subtractions dispatch_syscall and the syscall adapter make on the   *)
(* meter never underflow, whatever the budget and the syscalls' costs.     *)
THEOREM MeterSafe == Spec => []MeterConsistent
  <1>1. IndInv => MeterConsistent
    BY DEF IndInv, RefInv
  <1>2. QED
    BY <1>1, Invariance, PTL

(* push_frame never indexes call_frames out of its bounds, in the first    *)
(* execution of a VM or in a later one, whatever calls a failed one left   *)
(* behind, unless those took every frame; then, and only then, it panics.  *)
THEOREM FrameAvailable == Spec => []FreeFrame
  <1>1. IndInv => FreeFrame
    BY DEF IndInv, DepthInv
  <1>2. QED
    BY <1>1, Invariance, PTL

(* Every active call returns behind a call, those a failed execution left  *)
(* behind too; without such, and with fixed frames, the active calls       *)
(* occupy consecutive stack frames, whatever the program does to its       *)
(* registers; and success means that every call has returned.              *)
THEOREM CallsAlwaysNested == Spec => []CallsNested
  <1>1. IndInv => CallsNested
    BY DEF IndInv, DepthInv, CallsNested
  <1>2. QED
    BY <1>1, Invariance, PTL

(* The verifier's checks are enough to keep the interpreter from           *)
(* panicking on any program they accept, in an execution that does not     *)
(* begin with every frame taken.                                           *)
THEOREM AcceptedProgramsNeverPanic == Spec => []VerifiedNeverPanics
  <1>1. IndInv => VerifiedNeverPanics
    BY NoPanic DEF IndInv, RefInv, DepthInv, NeverInvalid, VerifiedNeverPanics
  <1>2. QED
    BY <1>1, Invariance, PTL

(* Only push_frame writes a frame, and it writes the one at call_depth.    *)
LEMMA FramesWritten ==
    ASSUME TypeOK, Next
    PROVE  \A i \in 0..MaxCallDepth-1 :
              i < call_depth => call_frames'[i] = call_frames[i]
  <1> USE DEF frameVars
  <1>1. ASSUME NEW r, NEW target, NEW res, PushFrame(r, target, res),
               NEW i \in 0..MaxCallDepth-1, i < call_depth
        PROVE  call_frames'[i] = call_frames[i]
    <2>1. call_depth # i
      BY <1>1 DEF TypeOK
    <2>2. QED
      BY <1>1, <2>1 DEF PushFrame, TypeOK
  <1>2. CASE StepCallReg
    <2>1. \/ call_frames' = call_frames
          \/ \E r, target, res : PushFrame(r, target, res)
      BY <1>2 DEF StepCallReg, CallFunction
    <2>2. QED
      BY <1>1, <2>1
  <1>3. CASE StepCallImm
    <2>1. \/ call_frames' = call_frames
          \/ \E r, target, res : PushFrame(r, target, res)
      BY <1>3 DEF StepCallImm, CallFunction
    <2>2. QED
      BY <1>1, <2>1
  <1>4. CASE ~(StepCallReg \/ StepCallImm)
    BY <1>4 DEF Next, Step, ExecuteProgram, StepExceeded, StepOverrun, StepData,
                StepLoadDoubleWord, StepJump, StepExit, StepUnsupported, Finish
  <1>5. QED
    BY <1>2, <1>3, <1>4

(* While a call is active, nothing a callee does changes what it saved.    *)
THEOREM SavedFramesStable == Spec => CallerFramesStable
  <1>1. IndInv /\ [Next]_vars =>
          [\A i \in 0..MaxCallDepth-1 :
              i < call_depth /\ i < call_depth' => call_frames'[i] = call_frames[i]]_vars
    BY FramesWritten DEF IndInv, RefInv
  <1>2. QED
    BY <1>1, Invariance, PTL DEF Spec, CallerFramesStable

-----------------------------------------------------------------------------
(* The interpreter implements Execution.                                   *)

-----------------------------------------------------------------------------
(* What the abstract machine takes from Sbpf is what the interpreter does. *)

LEMMA SameValues ==
    /\ Machine!Words = Words /\ Machine!Registers = Registers
    /\ Machine!R0 = R0 /\ Machine!R1 = R1 /\ Machine!R6 = R6 /\ Machine!FP = FP
    /\ \A v : Machine!Ok(v) = Ok(v)
    /\ \A e : Machine!Err(e) = Err(e)
  BY DEF Words, Registers, R0, R1, R6, FP, Ok, Err,
         Machine!Words, Machine!Registers, Machine!R0, Machine!R1, Machine!R6,
         Machine!FP, Machine!Ok, Machine!Err

(* The features of a version and what a call adds to the frame pointer.    *)
LEMMA SameFrames ==
    ASSUME NEW v
    PROVE  /\ Machine!FrameBump(v) = FrameBump(v)
           /\ Machine!InitialFramePointer(v) = InitialFramePointer(v)
           /\ Machine!DisableLddw(v) <=> DisableLddw(v)
  BY DEF FrameBump, InitialFramePointer, DisableLddw, ManualStackFrameBump,
         HasStackFrameGaps, SaturatingAdd,
         Machine!FrameBump, Machine!InitialFramePointer, Machine!DisableLddw,
         Machine!ManualStackFrameBump, Machine!HasStackFrameGaps, Machine!SaturatingAdd

LEMMA SameSum ==
    ASSUME NEW a, NEW b
    PROVE  Machine!WrappingAdd(a, b) = WrappingAdd(a, b)
  BY DEF WrappingAdd, Machine!WrappingAdd

LEMMA SamePrograms ==
    ASSUME NEW p
    PROVE  /\ IsProgram(p) => Machine!IsProgram(p)
           /\ \A at : Machine!IsPcInProgram(p, at) <=> IsPcInProgram(p, at)
  BY DEF IsProgram, IsInsn, RegisterFields, Opcodes, Versions, IsPcInProgram,
         Registers, R0, R1, R6, FP,
         Machine!IsProgram, Machine!IsInsn, Machine!RegisterFields, Machine!Opcodes,
         Machine!Versions, Machine!IsPcInProgram, Machine!Registers, Machine!R0,
         Machine!R1, Machine!R6, Machine!FP

(* Which group an instruction belongs to.                                  *)
LEMMA SameGroups ==
    ASSUME NEW p, NEW i
    PROVE  /\ Machine!IsDataOp(p, i) <=> IsDataOp(p, i)
           /\ Machine!IsUnsupported(p, i) <=> IsUnsupported(p, i)
  BY DEF IsDataOp, IsUnsupported, DataOps, ArithOps, EnablePqr, DisableLddw,
         Machine!IsDataOp, Machine!IsUnsupported, Machine!DataOps, Machine!ArithOps,
         Machine!EnablePqr, Machine!DisableLddw

(* What an instruction computes, and where it goes.                        *)
LEMMA SameEffect ==
    ASSUME NEW i, NEW r, NEW m
    PROVE  /\ Machine!Fault(i, r) = Fault(i, r)
           /\ Machine!RegistersAfter(i, r, m) = RegistersAfter(i, r, m)
           /\ Machine!MemoryAfter(i, r, m) = MemoryAfter(i, r, m)
  <1>1. Machine!Fault(i, r) = Fault(i, r)
    BY DEF Fault, WrappingAdd, Machine!Fault, Machine!WrappingAdd
  <1>2. Machine!RegistersAfter(i, r, m) = RegistersAfter(i, r, m)
    BY DEF RegistersAfter, ArithOps, Quotient, Signed,
           Machine!RegistersAfter, Machine!ArithOps, Machine!Quotient, Machine!Signed
  <1>3. QED
    BY <1>1, <1>2 DEF MemoryAfter, Machine!MemoryAfter

LEMMA SameJumps ==
    ASSUME NEW i, NEW r, NEW at
    PROVE  /\ Machine!BranchTaken(i, r) <=> BranchTaken(i, r)
           /\ Machine!JumpTarget(at, i) = JumpTarget(at, i)
  BY DEF BranchTaken, JumpTarget, Machine!BranchTaken, Machine!JumpTarget

LEMMA SameCalls ==
    ASSUME NEW p, NEW i, NEW at
    PROVE  /\ Machine!CallxRegister(p, i) = CallxRegister(p, i)
           /\ \A a : Machine!CallxTarget(a) = CallxTarget(a)
           /\ Machine!ResolvesToSyscall(p, i) <=> ResolvesToSyscall(p, i)
           /\ Machine!ResolvesToFunction(p, at, i) <=> ResolvesToFunction(p, at, i)
           /\ Machine!CallTarget(p, at, i) = CallTarget(p, at, i)
  BY DEF CallxRegister, CallxTarget, ResolvesToSyscall, ResolvesToFunction, CallTarget,
         CallxUsesSrcReg, CallxUsesDstReg, StaticSyscalls, WrappingSub,
         Machine!CallxRegister, Machine!CallxTarget, Machine!ResolvesToSyscall,
         Machine!ResolvesToFunction, Machine!CallTarget, Machine!CallxUsesSrcReg,
         Machine!CallxUsesDstReg, Machine!StaticSyscalls, Machine!WrappingSub

-----------------------------------------------------------------------------
(* The VM EbpfVm::new makes is an initial state of the abstract machine.   *)
LEMMA InitImplements == Init => Machine!Init
  <1> SUFFICES ASSUME Init PROVE Machine!Init
    OBVIOUS
  <1>1. IsProgram(program) /\ mem \in Words
    BY TypeInit DEF TypeOK
  <1>2. QED
    BY <1>1, SameValues, SamePrograms DEF Init, Machine!Init, Left, Observable

-----------------------------------------------------------------------------
(* The frames of the active calls, as the abstract machine keeps them.     *)
Stack == [i \in 1..call_depth |-> call_frames[i - 1]]

LEMMA StackType ==
    ASSUME TypeOK
    PROVE  /\ Stack \in Seq(Frames)
           /\ Len(Stack) = call_depth
           /\ Stack = << >> <=> call_depth = 0
  BY ConfigAssumption, SMTT(60) DEF TypeOK, Stack

LEMMA StackPushed ==
    ASSUME TypeOK, call_depth < MaxCallDepth, NEW frame \in Frames,
           call_frames' = [call_frames EXCEPT ![call_depth] = frame],
           call_depth' = call_depth + 1
    PROVE  Stack' = Append(Stack, frame)
  BY StackType, ConfigAssumption, SMTT(60) DEF TypeOK, Stack

LEMMA StackPopped ==
    ASSUME TypeOK, call_depth > 0, call_frames' = call_frames,
           call_depth' = call_depth - 1
    PROVE  /\ Stack' = SubSeq(Stack, 1, Len(Stack) - 1)
           /\ Stack[Len(Stack)] = call_frames[call_depth - 1]
  BY StackType, ConfigAssumption, SMTT(60) DEF TypeOK, Stack

(* What the abstract machine shows of a running interpreter that can pay.  *)
LEMMA Shown ==
    ASSUME phase = "running", Left > 0
    PROVE  /\ (IF phase = "running" THEN pc ELSE program.entry) = pc
           /\ Observable(reg) = reg
           /\ Observable([i \in 1..call_depth |-> call_frames[i - 1]]) = Stack
           /\ (IF phase = "running" /\ Left = 0 THEN Dead ELSE mem) = mem
  <1>1. Left # 0
    OBVIOUS
  <1>2. QED
    BY <1>1 DEF Observable, Stack

(* The depth of the calls.                                                 *)
LEMMA DepthType ==
    ASSUME RefInv
    PROVE  /\ TypeOK /\ call_depth \in Nat /\ MaxCallDepth \in Nat
           /\ program.n \in Nat
           /\ call_depth < MaxCallDepth => call_depth \in 0..MaxCallDepth-1
  <1>1. TypeOK
    BY DEF RefInv
  <1>2. call_depth \in 0..MaxCallDepth /\ IsProgram(program)
    BY <1>1 DEF TypeOK
  <1>3. program.n \in Nat
    BY <1>2 DEF IsProgram
  <1>4. QED
    BY <1>1, <1>2, <1>3, ConfigAssumption

(* A call that does not panic has a frame.                                 *)
LEMMA CallTaken ==
    ASSUME phase' # "panicked", NEW r, NEW target, NEW res, CallFunction(r, target, res)
    PROVE  call_depth < MaxCallDepth /\ PushFrame(r, target, res)
  BY DEF CallFunction

(* A step after which the interpreter goes on.                             *)
LEMMA ContinueImplements ==
    ASSUME phase = "running", phase' = "running", Left > 0, Left' \in Nat,
           program' = program, result' = result, registers11' = registers11
    PROVE  Machine!Continue(pc', reg', mem', Stack', Left')
  BY DEF Machine!Continue, Machine!Visible, Observable, Stack

(* A step that makes step return false.                                    *)
LEMMA HaltImplements ==
    ASSUME phase = "running", phase' = "stopped", program' = program,
           IF Left = 0 THEN mem' \in Words ELSE mem' = mem
    PROVE  Machine!Halt(program_result', registers11', Left')
  BY SameValues DEF Machine!Halt, Observable

(* A step that executes an instruction can pay for it.                     *)
LEMMA Paid ==
    ASSUME RefInv, Fetch
    PROVE  /\ phase = "running" /\ Left \in Nat /\ Left > 0
           /\ program' = program /\ result' = result
           /\ Charge /\ phase' \in {"running", "stopped"} =>
                Left' = Left - 1 /\ Left' \in Nat
  BY SMTT(60) DEF RefInv, TypeOK, Fetch, Charge, Left, returnVars

LEMMA DataImplements == RefInv /\ StepData => Machine!Data
  <1> SUFFICES ASSUME RefInv, StepData PROVE Machine!Data
    OBVIOUS
  <1>1. /\ phase = "running" /\ Left > 0 /\ pc < program.n
        /\ program' = program /\ result' = result
        /\ Left' = Left - 1 /\ Left' \in Nat
    BY Paid DEF StepData, Fetch, ThrowError, GoOn
  <1>2. Stack' = Stack
    BY DEF StepData, frameVars, Stack
  <1>3. CASE Fault(insn, reg) # "none"
    <2>1. Machine!Halt(program_result', registers11', Left')
      BY <1>1, <1>3, HaltImplements DEF StepData, ThrowError
    <2>2. Machine!Halt(Err(Fault(insn, reg)), pc, Left - 1)
      BY <1>1, <1>3, <2>1 DEF StepData, ThrowError
    <2>3. QED
      BY <1>1, <1>3, <2>2, Shown, SameValues, SameGroups, SameEffect
         DEF Machine!Data, StepData, insn
  <1>4. CASE Fault(insn, reg) = "none"
    <2>1. Machine!Continue(pc', reg', mem', Stack', Left')
      BY <1>1, <1>4, ContinueImplements DEF StepData, GoOn
    <2>2. Machine!Continue(pc + 1, RegistersAfter(insn, reg, mem),
                           MemoryAfter(insn, reg, mem), Stack, Left - 1)
      BY <1>1, <1>2, <1>4, <2>1 DEF StepData, GoOn
    <2>3. QED
      BY <1>1, <1>4, <2>2, Shown, SameGroups, SameEffect
         DEF Machine!Data, StepData, insn
  <1>5. QED
    BY <1>3, <1>4

(* An execution that finds no calls left over starts the machine.          *)
LEMMA StartImplements ==
    ASSUME RefInv, NEW budget \in Budgets, ExecuteProgram(budget), call_depth = 0
    PROVE  Machine!Start
  <1>1. /\ phase # "running" /\ phase' = "running" /\ budget \in Nat
        /\ program' = program /\ Left' = budget
        /\ pc' = program.entry /\ registers11' = program.entry
        /\ mem' = mem /\ reg' = registers
    BY ProgramsAssumption DEF ExecuteProgram, Left
  <1>2. /\ result' = result /\ phase # "stopped"
    BY DEF ExecuteProgram
  <1>3. call_depth' = 0 /\ Stack' = << >>
    <2>1. call_depth' = 0
      BY DEF ExecuteProgram, frameVars
    <2>2. QED
      BY <2>1 DEF Stack
  <1>4. /\ registers \in [Registers -> Words]
        /\ registers[FP] = InitialFramePointer(program.version) /\ registers[R6] = 0
    BY DEF RefInv, TypeOK, KeptFramePointer, KeptR6
  <1>5. QED
    BY <1>1, <1>2, <1>3, <1>4, SameValues, SameFrames, SMTT(60)
       DEF Machine!Start, Machine!Visible, Observable, Stack

LEMMA ExceedImplements == RefInv /\ StepExceeded => Machine!Exceed
  <1> SUFFICES ASSUME RefInv, StepExceeded PROVE Machine!Exceed
    OBVIOUS
  <1>1. /\ phase = "running" /\ phase' = "stopped" /\ program' = program
        /\ Left = 0 /\ Left' = 0 /\ mem' \in Words
        /\ program_result' = Err("ExceededMaxInstructions") /\ registers11' = pc
    BY DEF StepExceeded, ThrowError, RefInv, TypeOK, MeterConsistent, Left, meterVars
  <1>2. Machine!Halt(Err("ExceededMaxInstructions"), pc, 0)
    <2>1. Machine!Halt(program_result', registers11', Left')
      BY <1>1, HaltImplements
    <2>2. QED
      BY <1>1, <2>1
  <1>3. QED
    BY <1>1, <1>2, SameValues DEF Machine!Exceed

LEMMA OverrunImplements == RefInv /\ StepOverrun => Machine!Overrun
  <1> SUFFICES ASSUME RefInv, StepOverrun PROVE Machine!Overrun
    OBVIOUS
  <1>1. /\ phase = "running" /\ phase' = "stopped" /\ program' = program
        /\ Left > 0 /\ Left' = Left - 1 /\ mem' = mem /\ pc >= program.n
        /\ program_result' = Err("ExecutionOverrun") /\ registers11' = pc
    BY DEF StepOverrun, ThrowError, RefInv, TypeOK, Left
  <1>2. Machine!Halt(Err("ExecutionOverrun"), pc, Left - 1)
    <2>1. Machine!Halt(program_result', registers11', Left')
      BY <1>1, HaltImplements
    <2>2. QED
      BY <1>1, <2>1
  <1>3. QED
    BY <1>1, <1>2, SameValues DEF Machine!Overrun

LEMMA LoadDoubleWordImplements == RefInv /\ StepLoadDoubleWord => Machine!LoadDoubleWord
  <1> SUFFICES ASSUME RefInv, StepLoadDoubleWord PROVE Machine!LoadDoubleWord
    OBVIOUS
  <1>1. /\ phase = "running" /\ Left > 0 /\ pc < program.n /\ phase' = "running"
        /\ program' = program /\ result' = result /\ registers11' = registers11
        /\ Left' = Left - 1 /\ Left' \in Nat
        /\ pc' = pc + 2 /\ mem' = mem /\ Stack' = Stack
        /\ reg' = [reg EXCEPT ![insn.dst] = Arith(insn.op, @, insn.imm)]
    BY Paid DEF StepLoadDoubleWord, Fetch, GoOn, Stack, frameVars
  <1>2. Machine!Continue(pc', reg', mem', Stack', Left')
    BY <1>1, ContinueImplements
  <1>3. Machine!Continue(pc + 2, [reg EXCEPT ![insn.dst] = Arith(insn.op, @, insn.imm)],
                         mem, Stack, Left - 1)
    BY <1>1, <1>2
  <1>4. (IF phase = "running" THEN pc ELSE program.entry) = pc
    BY <1>1
  <1>5. /\ Observable(reg) = reg
        /\ Observable([i \in 1..call_depth |-> call_frames[i - 1]]) = Stack
        /\ (IF phase = "running" /\ Left = 0 THEN Dead ELSE mem) = mem
    BY <1>1, Shown
  <1>6. /\ insn.op = "LD_DW_IMM" /\ ~Machine!DisableLddw(program.version)
    BY SameFrames DEF StepLoadDoubleWord
  <1> DEFINE at == IF phase = "running" THEN pc ELSE program.entry
  <1>7. [Observable(reg) EXCEPT ![program.text[at].dst] =
            Arith(program.text[at].op, @, program.text[at].imm)]
        = [reg EXCEPT ![insn.dst] = Arith(insn.op, @, insn.imm)]
    BY <1>4, <1>5 DEF insn
  <1>8. QED
    BY <1>1, <1>3, <1>4, <1>5, <1>6, <1>7
       DEF Machine!LoadDoubleWord, Machine!At, insn

LEMMA JumpImplements == RefInv /\ StepJump => Machine!Jump
  <1> SUFFICES ASSUME RefInv, StepJump PROVE Machine!Jump
    OBVIOUS
  <1> DEFINE to == IF BranchTaken(insn, reg) THEN JumpTarget(pc, insn) ELSE pc + 1
  <1>1. /\ phase = "running" /\ Left > 0 /\ pc < program.n /\ phase' = "running"
        /\ program' = program /\ result' = result /\ registers11' = registers11
        /\ Left' = Left - 1 /\ Left' \in Nat
        /\ pc' = to /\ mem' = mem /\ reg' = reg /\ Stack' = Stack
    BY Paid DEF StepJump, Fetch, GoOn, Stack, frameVars
  <1>2. Machine!Continue(pc', reg', mem', Stack', Left')
    BY <1>1, ContinueImplements
  <1>3. Machine!Continue(to, reg, mem, Stack, Left - 1)
    BY <1>1, <1>2
  <1>4. /\ (IF phase = "running" THEN pc ELSE program.entry) = pc
        /\ Observable(reg) = reg
        /\ Observable([i \in 1..call_depth |-> call_frames[i - 1]]) = Stack
        /\ (IF phase = "running" /\ Left = 0 THEN Dead ELSE mem) = mem
    BY <1>1, Shown
  <1>5. /\ insn.op \in {"JA", "JEQ"}
        /\ Machine!BranchTaken(insn, reg) <=> BranchTaken(insn, reg)
        /\ Machine!JumpTarget(pc, insn) = JumpTarget(pc, insn)
    BY SameJumps DEF StepJump
  <1>6. QED
    BY <1>1, <1>3, <1>4, <1>5 DEF Machine!Jump, Machine!At, insn

(* push_frame and check_pc! are a call of the abstract machine.            *)
LEMMA CallImplements ==
    ASSUME RefInv, phase = "running", Left > 0, pc \in 0..program.n-1,
           NEW r \in [Registers -> Words], NEW target, NEW res,
           call_depth < MaxCallDepth, PushFrame(r, target, res),
           program' = program, result' = result, Left' \in Nat
    PROVE  Machine!Call(target, r, Left')
  <1> DEFINE frame == [r6 |-> r[R6], fp |-> r[FP], target_pc |-> pc + 1]
             bumped == [r EXCEPT ![FP] = WrappingAdd(@, FrameBump(program.version))]
  <1>1. /\ TypeOK /\ call_depth \in 0..MaxCallDepth-1 /\ MaxCallDepth \in Nat
        /\ program.n \in Nat
    BY DepthType
  <1>2. frame \in Frames
    BY <1>1 DEF Frames, Registers
  <1>3. /\ call_depth' = call_depth + 1
        /\ call_frames' = [call_frames EXCEPT ![call_depth] = frame]
        /\ mem' = mem
    BY DEF PushFrame
  <1>4. Stack' = Append(Stack, frame) /\ Len(Stack) = call_depth
    <2> HIDE DEF frame
    <2>1. Stack' = Append(Stack, frame)
      BY <1>1, <1>2, <1>3, StackPushed
    <2>2. QED
      BY <1>1, <2>1, StackType
  <1>5. /\ (IF phase = "running" THEN pc ELSE program.entry) = pc
        /\ Observable([i \in 1..call_depth |-> call_frames[i - 1]]) = Stack
        /\ (IF phase = "running" /\ Left = 0 THEN Dead ELSE mem) = mem
    BY Shown
  <1>6. /\ [r EXCEPT ![Machine!FP] =
                Machine!WrappingAdd(@, Machine!FrameBump(program.version))] = bumped
        /\ Machine!Frame(r, pc + 1) = frame
        /\ \A at : Machine!IsPcInProgram(program, at) <=> IsPcInProgram(program, at)
        /\ \A e : Machine!Err(e) = Err(e)
    BY SameValues, SameFrames, SameSum, SamePrograms DEF Machine!Frame
  <1>7. CASE call_depth + 1 = MaxCallDepth
    <2>1. Machine!Halt(program_result', registers11', Left')
      BY <1>3, <1>7, HaltImplements, SMTT(60) DEF PushFrame, ThrowError
    <2>2. Machine!Halt(Err("CallDepthExceeded"), pc, Left')
      BY <1>7, <2>1 DEF PushFrame, ThrowError
    <2>3. QED
      BY <1>4, <1>5, <1>6, <1>7, <2>2 DEF Machine!Call
  <1>8. CASE call_depth + 1 # MaxCallDepth /\ ~IsPcInProgram(program, target)
    <2>1. Machine!Halt(program_result', registers11', Left')
      BY <1>3, <1>8, HaltImplements, SMTT(60) DEF PushFrame, ThrowError
    <2>2. Machine!Halt(Err("CallOutsideTextSegment"), pc, Left')
      BY <1>8, <2>1 DEF PushFrame, ThrowError
    <2>3. QED
      BY <1>4, <1>5, <1>6, <1>8, <2>2 DEF Machine!Call
  <1>9. CASE call_depth + 1 # MaxCallDepth /\ IsPcInProgram(program, target)
    <2>1. Machine!Continue(pc', reg', mem', Stack', Left')
      BY <1>9, ContinueImplements DEF PushFrame, GoOn
    <2>2. Machine!Continue(target, bumped, mem, Append(Stack, frame), Left')
      BY <1>3, <1>4, <1>9, <2>1 DEF PushFrame, GoOn
    <2>3. QED
      BY <1>4, <1>5, <1>6, <1>9, <2>2 DEF Machine!Call
  <1>10. QED
    BY <1>7, <1>8, <1>9

LEMMA CallRegImplements ==
    RefInv /\ StepCallReg /\ phase' # "panicked" => Machine!CallReg
  <1> SUFFICES ASSUME RefInv, StepCallReg, phase' # "panicked" PROVE Machine!CallReg
    OBVIOUS
  <1> DEFINE target == CallxTarget(reg[CallxRegister(program, insn)])
  <1>1. /\ Fetch /\ Charge /\ insn.op = "CALL_REG"
        /\ call_depth < MaxCallDepth /\ PushFrame(reg, target, program_result)
    BY CallTaken DEF StepCallReg
  <1>2. /\ phase = "running" /\ Left > 0 /\ pc < program.n /\ pc \in 0..program.n-1
        /\ program' = program /\ result' = result
        /\ reg \in [Registers -> Words]
    BY <1>1, Paid, FetchedInsn DEF Fetch, RefInv, TypeOK
  <1>3. Left' = Left - 1 /\ Left' \in Nat
    BY <1>1, <1>2, Paid DEF PushFrame, ThrowError, GoOn
  <1>4. Machine!Call(target, reg, Left')
    BY <1>1, <1>2, <1>3, CallImplements
  <1>5. Machine!Call(target, reg, Left - 1)
    BY <1>3, <1>4
  <1>6. /\ (IF phase = "running" THEN pc ELSE program.entry) = pc
        /\ Observable(reg) = reg
    BY <1>2, Shown
  <1>7. QED
    BY <1>1, <1>2, <1>5, <1>6, SameCalls DEF Machine!CallReg, Machine!At, insn

(* dispatch_syscall settles what is due and lets the syscall consume.      *)
LEMMA SyscallPaid ==
    ASSUME RefInv, Fetch, DispatchSyscall, phase' \in {"running", "stopped"}
    PROVE  /\ Left' = Machine!Max0(Left - 1 - SyscallCost(reg[R1]))
           /\ Left' \in Nat
  <1>1. SyscallCost(reg[R1]) \in Nat
    BY SyscallAssumption DEF RefInv, TypeOK, Registers, Words
  <1>2. /\ previous_instruction_meter \in Nat /\ due_insn_count \in Nat
        /\ remaining = previous_instruction_meter
        /\ due_insn_count < previous_instruction_meter
        /\ Left = previous_instruction_meter - due_insn_count
    BY DEF RefInv, TypeOK, MeterConsistent, Fetch, Left
  <1>3. Left' = SaturatingSub(Left - 1, SyscallCost(reg[R1]))
    BY <1>1, <1>2 DEF DispatchSyscall, SaturatingSub, Left
  <1>4. QED
    BY <1>1, <1>2, <1>3 DEF SaturatingSub, Machine!Max0

LEMMA CallImmImplements ==
    RefInv /\ StepCallImm /\ phase' # "panicked" => Machine!CallImm
  <1> SUFFICES ASSUME RefInv, StepCallImm, phase' # "panicked" PROVE Machine!CallImm
    OBVIOUS
  <1> DEFINE sys == ResolvesToSyscall(program, insn)
             fn == ResolvesToFunction(program, pc, insn)
             target == CallTarget(program, pc, insn)
             value == SyscallValue(reg[R1])
             r == IF sys THEN [reg EXCEPT ![R0] = value] ELSE reg
             res == IF sys THEN Ok(value) ELSE program_result
             l == IF sys THEN Machine!Max0(Left - 1 - SyscallCost(reg[R1])) ELSE Left - 1
  <1>1. /\ Fetch /\ insn.op = "CALL_IMM"
        /\ IF sys THEN DispatchSyscall ELSE Charge
        /\ IF sys /\ SyscallFails(reg[R1])
           THEN /\ program_result' = Err("SyscallError") /\ phase' = "stopped"
                /\ UNCHANGED <<frameVars, registers11, mem, reg, pc>>
           ELSE IF fn THEN call_depth < MaxCallDepth /\ PushFrame(r, target, res)
           ELSE IF sys THEN /\ reg' = r /\ program_result' = res
                            /\ GoOn(pc + 1) /\ UNCHANGED <<frameVars, mem>>
           ELSE /\ ThrowError("UnsupportedInstruction")
                /\ UNCHANGED <<frameVars, mem, reg, pc>>
    BY CallTaken DEF StepCallImm
  <1>2. /\ phase = "running" /\ Left > 0 /\ pc < program.n /\ pc \in 0..program.n-1
        /\ program' = program /\ result' = result
        /\ reg \in [Registers -> Words]
    BY <1>1, Paid, FetchedInsn DEF Fetch, RefInv, TypeOK
  <1>3. r \in [Registers -> Words]
    BY <1>2, SyscallAssumption DEF Registers, Words
  <1>4. phase' \in {"running", "stopped"}
    BY <1>1, <1>2 DEF PushFrame, ThrowError, GoOn
  <1>5. Left' = l /\ Left' \in Nat
    BY <1>1, <1>2, <1>4, Paid, SyscallPaid
  <1>6. /\ (IF phase = "running" THEN pc ELSE program.entry) = pc
        /\ Observable(reg) = reg
        /\ Observable([i \in 1..call_depth |-> call_frames[i - 1]]) = Stack
        /\ (IF phase = "running" /\ Left = 0 THEN Dead ELSE mem) = mem
    BY <1>2, Shown
  <1>7. /\ Machine!ResolvesToSyscall(program, insn) <=> sys
        /\ Machine!ResolvesToFunction(program, pc, insn) <=> fn
        /\ Machine!CallTarget(program, pc, insn) = target
        /\ Machine!R1 = R1 /\ Machine!R0 = R0
        /\ \A e : Machine!Err(e) = Err(e)
    BY SameCalls, SameValues
  <1> DEFINE s == IF sys THEN [reg EXCEPT ![Machine!R0] = SyscallValue(reg[Machine!R1])]
                  ELSE reg
  <1>8. s = r
    BY <1>7
  <1> SUFFICES IF sys /\ SyscallFails(reg[R1])
               THEN Machine!Halt(Err("SyscallError"), registers11, l)
               ELSE IF fn THEN Machine!Call(target, s, l)
               ELSE IF sys THEN Machine!Continue(pc + 1, s, mem, Stack, l)
               ELSE Machine!Halt(Err("UnsupportedInstruction"), pc, l)
    BY <1>1, <1>2, <1>6, <1>7 DEF Machine!CallImm, Machine!At, insn
  <1> HIDE DEF sys, fn, target, value, r, res, l, s
  <1>9. CASE sys /\ SyscallFails(reg[R1])
    <2>1. Machine!Halt(program_result', registers11', Left')
      BY <1>1, <1>2, <1>9, HaltImplements, SMTT(60)
    <2>2. QED
      BY <1>1, <1>5, <1>9, <2>1
  <1>10. CASE ~(sys /\ SyscallFails(reg[R1])) /\ fn
    <2>1. Machine!Call(target, r, Left')
      BY <1>1, <1>2, <1>3, <1>5, <1>10, CallImplements
    <2>2. QED
      BY <1>5, <1>8, <1>10, <2>1
  <1>11. CASE ~(sys /\ SyscallFails(reg[R1])) /\ ~fn /\ sys
    <2>1. Stack' = Stack /\ phase' = "running" /\ registers11' = registers11
      BY <1>1, <1>2, <1>11 DEF Stack, frameVars, GoOn
    <2>2. Machine!Continue(pc', reg', mem', Stack', Left')
      BY <1>2, <1>5, <2>1, ContinueImplements
    <2>3. QED
      BY <1>1, <1>5, <1>8, <1>11, <2>1, <2>2 DEF GoOn
  <1>12. CASE ~fn /\ ~sys
    <2>1. Machine!Halt(program_result', registers11', Left')
      BY <1>1, <1>2, <1>12, HaltImplements, SMTT(60) DEF ThrowError
    <2>2. QED
      BY <1>1, <1>5, <1>12, <2>1 DEF ThrowError
  <1>13. QED
    BY <1>9, <1>10, <1>11, <1>12

LEMMA ExitImplements == RefInv /\ StepExit => Machine!Exit
  <1> SUFFICES ASSUME RefInv, StepExit PROVE Machine!Exit
    OBVIOUS
  <1> DEFINE top == call_frames[call_depth - 1]
  <1>1. Fetch /\ Charge /\ insn.op = "EXIT" /\ call_frames' = call_frames /\ mem' = mem
    BY DEF StepExit
  <1>2. /\ phase = "running" /\ Left > 0 /\ pc < program.n
        /\ program' = program /\ result' = result
        /\ TypeOK /\ call_depth \in Nat
    BY <1>1, Paid, DepthType DEF Fetch
  <1>3. Left' = Left - 1 /\ Left' \in Nat
    <2>1. phase' \in {"running", "stopped"}
      BY <1>2 DEF StepExit, ThrowError, GoOn
    <2>2. QED
      BY <1>1, <2>1, Paid
  <1>4. /\ (IF phase = "running" THEN pc ELSE program.entry) = pc
        /\ Observable(reg) = reg
        /\ Observable([i \in 1..call_depth |-> call_frames[i - 1]]) = Stack
        /\ (IF phase = "running" /\ Left = 0 THEN Dead ELSE mem) = mem
    BY <1>2, Shown
  <1>5. CASE call_depth = 0
    <2>1. /\ program_result' = Ok(reg[R0]) /\ phase' = "stopped"
          /\ registers11' = registers11
      <3>1. ~(due_insn_count + 1 > previous_instruction_meter)
        BY <1>1, <1>2 DEF Fetch, TypeOK
      <3>2. QED
        BY <1>5, <3>1 DEF StepExit
    <2>2. Machine!Halt(program_result', registers11', Left')
      BY <1>1, <1>2, <2>1, HaltImplements
    <2>3. Machine!Halt(Ok(reg[R0]), registers11, Left - 1)
      BY <1>3, <2>1, <2>2
    <2>4. QED
      BY <1>1, <1>2, <1>4, <1>5, <2>3, StackType, SameValues
         DEF Machine!Exit, Machine!At, insn
  <1>6. CASE call_depth # 0
    <2>1. /\ call_depth' = call_depth - 1
          /\ reg' = [reg EXCEPT ![R6] = top.r6, ![FP] = top.fp]
          /\ IF IsPcInProgram(program, top.target_pc)
             THEN GoOn(top.target_pc) /\ UNCHANGED program_result
             ELSE ThrowError("CallOutsideTextSegment") /\ UNCHANGED pc
      BY <1>6 DEF StepExit
    <2>2. /\ Stack' = SubSeq(Stack, 1, Len(Stack) - 1) /\ Stack[Len(Stack)] = top
          /\ Stack # << >>
      BY <1>1, <1>2, <1>6, <2>1, StackPopped, StackType
    <2> DEFINE back == [reg EXCEPT ![Machine!R6] = top.r6, ![Machine!FP] = top.fp]
    <2>3. back = reg'
      BY <2>1, SameValues
    <2>4. /\ \A at : Machine!IsPcInProgram(program, at) <=> IsPcInProgram(program, at)
          /\ \A e : Machine!Err(e) = Err(e)
      BY SamePrograms, SameValues
    <2> SUFFICES IF ~IsPcInProgram(program, top.target_pc)
                 THEN Machine!Halt(Err("CallOutsideTextSegment"), pc, Left - 1)
                 ELSE Machine!Continue(top.target_pc, back, mem,
                                       SubSeq(Stack, 1, Len(Stack) - 1), Left - 1)
      BY <1>1, <1>2, <1>4, <2>2, <2>4 DEF Machine!Exit, Machine!At, insn
    <2> HIDE DEF top, back
    <2>5. CASE IsPcInProgram(program, top.target_pc)
      <3>1. Machine!Continue(pc', reg', mem', Stack', Left')
        BY <1>2, <1>3, <2>1, <2>5, ContinueImplements DEF GoOn
      <3>2. QED
        BY <1>1, <1>3, <2>1, <2>2, <2>3, <2>5, <3>1 DEF GoOn
    <2>6. CASE ~IsPcInProgram(program, top.target_pc)
      <3>1. /\ phase' = "stopped" /\ registers11' = pc
            /\ program_result' = Err("CallOutsideTextSegment")
        BY <2>1, <2>6 DEF ThrowError
      <3>2. Machine!Halt(program_result', registers11', Left')
        BY <1>1, <1>2, <3>1, HaltImplements
      <3>3. QED
        BY <1>3, <2>6, <3>1, <3>2
    <2>7. QED
      BY <2>5, <2>6
  <1>7. QED
    BY <1>5, <1>6

LEMMA UnsupportedImplements == RefInv /\ StepUnsupported => Machine!Unsupported
  <1> SUFFICES ASSUME RefInv, StepUnsupported PROVE Machine!Unsupported
    OBVIOUS
  <1>1. /\ phase = "running" /\ phase' = "stopped" /\ Left > 0 /\ pc < program.n
        /\ program' = program /\ mem' = mem /\ Left' = Left - 1
        /\ program_result' = Err("UnsupportedInstruction") /\ registers11' = pc
    BY Paid DEF StepUnsupported, Fetch, ThrowError
  <1>2. Machine!Halt(program_result', registers11', Left')
    BY <1>1, HaltImplements
  <1>3. Machine!Halt(Err("UnsupportedInstruction"), pc, Left - 1)
    BY <1>1, <1>2
  <1>4. (IF phase = "running" THEN pc ELSE program.entry) = pc
    BY <1>1
  <1>5. QED
    BY <1>1, <1>3, <1>4, SameValues, SameGroups DEF StepUnsupported, Machine!Unsupported, insn

(* What execute_program does after the loop cannot be observed.            *)
LEMMA FinishStutters == RefInv /\ Finish => UNCHANGED Machine!vars
  <1> SUFFICES ASSUME RefInv, Finish PROVE UNCHANGED Machine!vars
    OBVIOUS
  <1>1. Left' = Left
    BY SMTT(60) DEF Finish, RefInv, TypeOK, MeterConsistent, Left, SaturatingSub
  <1>2. QED
    BY <1>1 DEF Finish, Machine!vars, Observable

(* Only a call that finds no frame panics.                                 *)
LEMMA PanicsAtCall ==
    ASSUME TypeOK, Next, phase' = "panicked"
    PROVE  phase = "running" /\ FindsNoFrame /\ leftover' = leftover
  <1>1. ASSUME NEW r, NEW target, NEW res, CallFunction(r, target, res), phase = "running"
        PROVE  call_depth = MaxCallDepth
    <2>1. ~(call_depth < MaxCallDepth)
      BY <1>1 DEF CallFunction, PushFrame, ThrowError, GoOn
    <2>2. QED
      BY <2>1, ConfigAssumption, SMTT(60) DEF TypeOK
  <1>2. StepCallReg \/ StepCallImm
    BY DEF Next, Step, ExecuteProgram, StepExceeded, StepOverrun, StepData,
           StepLoadDoubleWord, StepJump, StepExit, StepUnsupported, Finish, Fetch,
           ThrowError, GoOn
  <1>3. phase = "running" /\ leftover' = leftover
    BY <1>2 DEF StepCallReg, StepCallImm, Fetch, returnVars
  <1>4. \E r, target, res : CallFunction(r, target, res)
    BY <1>2, <1>3 DEF StepCallReg, StepCallImm, ThrowError, GoOn
  <1>5. QED
    BY <1>1, <1>3, <1>4 DEF FindsNoFrame

(* What the machine shows depends on the VM's variables only.              *)
LEMMA MachineStays == UNCHANGED vars => UNCHANGED Machine!vars
  BY DEF vars, meterVars, frameVars, returnVars, Machine!vars, Left, Observable

(* Every step is one of the machine, but for those it does not know of.    *)
LEMMA StepImplements ==
    RefInv /\ [Next]_vars =>
        [Machine!Next]_Machine!vars \/ BeginsWithCalls \/ FindsNoFrame
  <1> SUFFICES ASSUME RefInv, [Next]_vars, ~BeginsWithCalls, ~FindsNoFrame
               PROVE  [Machine!Next]_Machine!vars
    OBVIOUS
  <1>1. CASE UNCHANGED vars
    BY <1>1, MachineStays
  <1>2. CASE \E budget \in Budgets : ExecuteProgram(budget)
    <2>1. PICK budget \in Budgets : ExecuteProgram(budget)
      BY <1>2
    <2>2. runs' # runs
      BY <2>1, SMTT(60) DEF ExecuteProgram, RefInv, TypeOK
    <2>3. call_depth = 0
      BY <2>2 DEF BeginsWithCalls
    <2>4. QED
      BY <2>1, <2>3, StartImplements DEF Machine!Next
  <1>3. CASE Step
    <2>1. phase' # "panicked"
      BY <1>3, PanicsAtCall DEF Next, RefInv
    <2>2. QED
      BY <1>3, <2>1, ExceedImplements, OverrunImplements, DataImplements,
         LoadDoubleWordImplements, JumpImplements, CallRegImplements, CallImmImplements,
         ExitImplements, UnsupportedImplements DEF Step, Machine!Next
  <1>4. CASE Finish
    BY <1>4, FinishStutters
  <1>5. QED
    BY <1>1, <1>2, <1>3, <1>4 DEF Next

(* Whatever the configuration, the accepted program and the budgets, what  *)
(* the interpreter's executions cost, return and leave in memory is what   *)
(* Execution says, but for where an execution begins with the calls a      *)
(* failed one left behind, and for a call there that finds no frame.       *)
THEOREM InterpreterImplements == Spec => ImplementsExecution
  <1>1. ASSUME IndInv, IndInv', [Next]_vars
        PROVE  [\/ Machine!Next \/ UNCHANGED Machine!vars
                \/ BeginsWithCalls
                \/ FindsNoFrame /\ leftover = MaxCallDepth]_vars
    <2>1. CASE FindsNoFrame /\ ~UNCHANGED vars
      <3>1. leftover' = leftover /\ FreeFrame'
        BY <1>1, <2>1, PanicsAtCall DEF FindsNoFrame, IndInv, RefInv, DepthInv
      <3>2. leftover' = MaxCallDepth
        BY <2>1, <3>1 DEF FindsNoFrame, FreeFrame
      <3>3. QED
        BY <2>1, <3>1, <3>2
    <2>2. QED
      BY <1>1, <2>1, StepImplements DEF IndInv
  <1>2. QED
    BY <1>1, IndInvInit, IndInvStep, InitImplements, PTL DEF Spec, ImplementsExecution

-----------------------------------------------------------------------------
(* The interpreter goes through the states of the machine, one after the   *)
(* other, and traces them.                                                 *)

(* A machine that goes on has the state that After says.                   *)
LEMMA ContinueDetermined ==
    ASSUME phase = "running", NEW to, NEW r, NEW m, NEW f, NEW l,
           Machine!Continue(to, r, m, f, l)
    PROVE  Machine!State' = Machine!Going(Machine!State, to, r, m, f, l)
  BY DEF Machine!Continue, Machine!State, Machine!Going

(* So has one that halts.                                                  *)
LEMMA HaltDetermined ==
    ASSUME phase = "running", NEW r, NEW at, NEW l, Machine!Halt(r, at, l),
           Left = 0 => r = Machine!Exceeded
    PROVE  Machine!State' = Machine!Halted(program, Machine!State, r, at, l)
  BY DEF Machine!Halt, Machine!State, Machine!Halted

(* Which of its cases After takes.                                         *)
LEMMA InsnDetermined ==
    ASSUME NEW p, NEW s, NEW i
    PROVE  /\ Machine!IsDataOp(p, i) => Machine!AfterInsn(p, s, i) = Machine!AfterData(p, s, i)
           /\ Machine!IsUnsupported(p, i) => Machine!AfterInsn(p, s, i) =
                 Machine!Halted(p, s, Machine!Err("UnsupportedInstruction"), s.pc, s.left - 1)
           /\ i.op = "LD_DW_IMM" /\ ~Machine!DisableLddw(p.version) =>
                 Machine!AfterInsn(p, s, i) =
                 Machine!Going(s, s.pc + 2, [s.reg EXCEPT ![i.dst] = Arith(i.op, @, i.imm)],
                               s.mem, s.frames, s.left - 1)
           /\ i.op \in {"JA", "JEQ"} => Machine!AfterInsn(p, s, i) =
                 Machine!Going(s, IF Machine!BranchTaken(i, s.reg) THEN Machine!JumpTarget(s.pc, i)
                                  ELSE s.pc + 1, s.reg, s.mem, s.frames, s.left - 1)
           /\ i.op = "CALL_REG" => Machine!AfterInsn(p, s, i) =
                 Machine!Called(p, s, Machine!CallxTarget(s.reg[Machine!CallxRegister(p, i)]),
                                s.reg, s.left - 1)
           /\ i.op = "CALL_IMM" => Machine!AfterInsn(p, s, i) = Machine!AfterCallImm(p, s, i)
           /\ i.op = "EXIT" => Machine!AfterInsn(p, s, i) = Machine!AfterExit(p, s)
  <1>1. Machine!IsDataOp(p, i) => i.op \notin {"LD_DW_IMM", "JA", "JEQ", "CALL_REG", "CALL_IMM", "EXIT"}
    BY DEF Machine!IsDataOp, Machine!DataOps, Machine!ArithOps
  <1>2. Machine!IsUnsupported(p, i) =>
          /\ ~Machine!IsDataOp(p, i) /\ i.op \notin {"JA", "JEQ", "CALL_REG", "CALL_IMM", "EXIT"}
          /\ i.op # "LD_DW_IMM" \/ Machine!DisableLddw(p.version)
    BY DEF Machine!IsUnsupported
  <1>3. QED
    BY <1>1, <1>2 DEF Machine!AfterInsn


(* The machine's state, when it is running.                                *)
LEMMA StateFields ==
    ASSUME phase = "running", NEW s, s = Machine!State
    PROVE  /\ s.pc = (IF phase = "running" THEN pc ELSE program.entry)
           /\ s.reg = Observable(reg) /\ s.left = Left /\ s.final_pc = registers11
           /\ s.mem = (IF phase = "running" /\ Left = 0 THEN Dead ELSE mem)
           /\ s.frames = Observable([i \in 1..call_depth |-> call_frames[i - 1]])
  BY DEF Machine!State

(* And one that calls.                                                     *)
LEMMA CallDetermined ==
    ASSUME phase = "running", NEW target, NEW r, NEW l, Machine!Call(target, r, l), Left # 0
    PROVE  Machine!State' = Machine!Called(program, Machine!State, target, r, l)
  <1>1. PICK s : s = Machine!State
    OBVIOUS
  <1> DEFINE bumped == [r EXCEPT ![Machine!FP] =
                           Machine!WrappingAdd(@, Machine!FrameBump(program.version))]
             pushed == Append(s.frames, Machine!Frame(r, s.pc + 1))
  <1>2. IF Len(s.frames) + 1 = MaxCallDepth
        THEN Machine!Halt(Machine!Err("CallDepthExceeded"), s.pc, l)
        ELSE IF ~Machine!IsPcInProgram(program, target)
        THEN Machine!Halt(Machine!Err("CallOutsideTextSegment"), s.pc, l)
        ELSE Machine!Continue(target, bumped, s.mem, pushed, l)
    BY <1>1, StateFields DEF Machine!Call
  <1>3. Machine!Called(program, s, target, r, l) =
          IF Len(s.frames) + 1 = MaxCallDepth
          THEN Machine!Halted(program, s, Machine!Err("CallDepthExceeded"), s.pc, l)
          ELSE IF ~Machine!IsPcInProgram(program, target)
          THEN Machine!Halted(program, s, Machine!Err("CallOutsideTextSegment"), s.pc, l)
          ELSE Machine!Going(s, target, bumped, s.mem, pushed, l)
    BY DEF Machine!Called
  <1> HIDE DEF bumped, pushed
  <1>4. CASE Len(s.frames) + 1 = MaxCallDepth
    <2>1. Machine!Halt(Machine!Err("CallDepthExceeded"), s.pc, l)
      BY <1>2, <1>4
    <2>2. QED
      BY <1>1, <1>3, <1>4, <2>1, HaltDetermined
  <1>5. CASE Len(s.frames) + 1 # MaxCallDepth /\ ~Machine!IsPcInProgram(program, target)
    <2>1. Machine!Halt(Machine!Err("CallOutsideTextSegment"), s.pc, l)
      BY <1>2, <1>5
    <2>2. QED
      BY <1>1, <1>3, <1>5, <2>1, HaltDetermined
  <1>6. CASE Len(s.frames) + 1 # MaxCallDepth /\ Machine!IsPcInProgram(program, target)
    <2>1. Machine!Continue(target, bumped, s.mem, pushed, l)
      BY <1>2, <1>6
    <2>2. QED
      BY <1>1, <1>3, <1>6, <2>1, ContinueDetermined
  <1>7. QED
    BY <1>4, <1>5, <1>6

(* Whenever it can pay for an instruction, that is what it executes.       *)
LEMMA InsnReached ==
    ASSUME phase = "running", NEW s, s = Machine!State, s.left \in Nat, s.left > 0,
           s.pc \in Nat, program.n \in Nat, s.pc < program.n
    PROVE  /\ Machine!After(program, s) = Machine!AfterInsn(program, s, program.text[s.pc])
           /\ Left # 0
  <1>1. s.left # 0 /\ ~(s.pc >= program.n)
    OBVIOUS
  <1>2. QED
    BY <1>1, StateFields DEF Machine!After

(* The types it takes.                                                     *)
Typed == phase = "running" /\ Left \in Nat /\ pc \in Nat /\ program.n \in Nat

(* Every step of the running machine goes to the state After says.         *)
LEMMA Determined ==
    ASSUME Typed, Machine!Next
    PROVE  Machine!State' = Machine!After(program, Machine!State)
  <1>1. PICK s : s = Machine!State
    OBVIOUS
  <1>2. PICK i : i = program.text[s.pc]
    OBVIOUS
  <1>3. /\ phase = "running" /\ s.pc \in Nat /\ program.n \in Nat
        /\ s.left = Left /\ s.left \in Nat
    BY <1>1, StateFields DEF Typed
  <1>4. ASSUME s.left > 0, s.pc < program.n
        PROVE  Left # 0 /\ Machine!After(program, s) = Machine!AfterInsn(program, s, i)
    BY <1>1, <1>2, <1>3, <1>4, InsnReached
  <1>5. CASE Machine!Exceed
    <2>1. s.left = 0 /\ Machine!Halt(Machine!Exceeded, s.pc, 0)
      BY <1>1, <1>2, <1>3, <1>5, StateFields DEF Machine!Exceed, Machine!Exceeded
    <2>2. QED
      BY <1>1, <1>3, <2>1, HaltDetermined DEF Machine!After
  <1>6. CASE Machine!Overrun
    <2>1. /\ s.left > 0 /\ s.pc >= program.n
          /\ Machine!Halt(Machine!Err("ExecutionOverrun"), s.pc, s.left - 1)
      BY <1>1, <1>3, <1>6, StateFields DEF Machine!Overrun
    <2>2. s.left # 0
      BY <1>3, <2>1
    <2>3. QED
      BY <1>1, <1>3, <2>1, <2>2, HaltDetermined DEF Machine!After
  <1>7. CASE Machine!Data
    <2>1. /\ s.left > 0 /\ s.pc < program.n /\ Machine!IsDataOp(program, i)
          /\ IF Machine!Fault(i, s.reg) # "none"
             THEN Machine!Halt(Machine!Err(Machine!Fault(i, s.reg)), s.pc, s.left - 1)
             ELSE Machine!Continue(s.pc + 1, Machine!RegistersAfter(i, s.reg, s.mem),
                                   Machine!MemoryAfter(i, s.reg, s.mem), s.frames,
                                   s.left - 1)
      BY <1>1, <1>2, <1>3, <1>7, StateFields DEF Machine!Data
    <2>2. Machine!State' = Machine!AfterData(program, s, i)
      BY <1>1, <1>3, <1>4, <2>1, ContinueDetermined, HaltDetermined, SMTT(60) DEF Machine!AfterData
    <2>3. QED
      BY <1>1, <1>3, <1>4, <2>1, <2>2, InsnDetermined
  <1>8. CASE Machine!LoadDoubleWord
    <2>1. /\ s.left > 0 /\ s.pc < program.n
          /\ i.op = "LD_DW_IMM" /\ ~Machine!DisableLddw(program.version)
          /\ Machine!Continue(s.pc + 2, [s.reg EXCEPT ![i.dst] = Arith(i.op, @, i.imm)],
                              s.mem, s.frames, s.left - 1)
      BY <1>1, <1>2, <1>3, <1>8, StateFields DEF Machine!LoadDoubleWord, Machine!At
    <2> DEFINE r == [s.reg EXCEPT ![i.dst] = Arith(i.op, @, i.imm)]
    <2>2. Machine!AfterInsn(program, s, i)
            = Machine!Going(s, s.pc + 2, r, s.mem, s.frames, s.left - 1)
      BY <2>1, InsnDetermined
    <2>3. Machine!Continue(s.pc + 2, r, s.mem, s.frames, s.left - 1)
      BY <2>1
    <2> HIDE DEF r
    <2>4. Machine!State' = Machine!Going(s, s.pc + 2, r, s.mem, s.frames, s.left - 1)
      BY <1>1, <1>3, <2>3, ContinueDetermined
    <2>5. QED
      BY <1>1, <1>4, <2>1, <2>2, <2>4
  <1>9. CASE Machine!Jump
    <2>1. /\ s.left > 0 /\ s.pc < program.n /\ i.op \in {"JA", "JEQ"}
          /\ Machine!Continue(IF Machine!BranchTaken(i, s.reg)
                              THEN Machine!JumpTarget(s.pc, i) ELSE s.pc + 1,
                              s.reg, s.mem, s.frames, s.left - 1)
      BY <1>1, <1>2, <1>3, <1>9, StateFields DEF Machine!Jump, Machine!At
    <2> DEFINE to == IF Machine!BranchTaken(i, s.reg)
                     THEN Machine!JumpTarget(s.pc, i) ELSE s.pc + 1
    <2>2. Machine!AfterInsn(program, s, i)
            = Machine!Going(s, to, s.reg, s.mem, s.frames, s.left - 1)
      BY <2>1, InsnDetermined
    <2>3. Machine!Continue(to, s.reg, s.mem, s.frames, s.left - 1)
      BY <2>1
    <2> HIDE DEF to
    <2>4. Machine!State' = Machine!Going(s, to, s.reg, s.mem, s.frames, s.left - 1)
      BY <1>1, <1>3, <2>3, ContinueDetermined
    <2>5. QED
      BY <1>1, <1>4, <2>1, <2>2, <2>4
  <1>10. CASE Machine!CallReg
    <2>1. /\ s.left > 0 /\ s.pc < program.n /\ i.op = "CALL_REG"
          /\ Machine!Call(Machine!CallxTarget(s.reg[Machine!CallxRegister(program, i)]),
                          s.reg, s.left - 1)
      BY <1>1, <1>2, <1>3, <1>10, StateFields DEF Machine!CallReg, Machine!At
    <2>2. Left # 0
      BY <1>4, <2>1
    <2> DEFINE to == Machine!CallxTarget(s.reg[Machine!CallxRegister(program, i)])
    <2>3. Machine!State' = Machine!Called(program, s, to, s.reg, s.left - 1)
      BY <1>1, <1>3, <2>1, <2>2, CallDetermined
    <2>4. Machine!AfterInsn(program, s, i)
            = Machine!Called(program, s, to, s.reg, s.left - 1)
      BY <2>1, InsnDetermined
    <2>5. QED
      BY <1>1, <1>4, <2>1, <2>3, <2>4
  <1>11. CASE Machine!CallImm
    <2>1. s.left > 0 /\ s.pc < program.n /\ i.op = "CALL_IMM"
      BY <1>1, <1>2, <1>3, <1>11, StateFields DEF Machine!CallImm, Machine!At
    <2> DEFINE sys == Machine!ResolvesToSyscall(program, i)
               l == IF sys THEN Machine!Max0(s.left - 1 - SyscallCost(s.reg[Machine!R1]))
                    ELSE s.left - 1
               r == IF sys
                    THEN [s.reg EXCEPT ![Machine!R0] = SyscallValue(s.reg[Machine!R1])]
                    ELSE s.reg
    <2>2. IF sys /\ SyscallFails(s.reg[Machine!R1])
          THEN Machine!Halt(Machine!Err("SyscallError"), s.final_pc, l)
          ELSE IF Machine!ResolvesToFunction(program, s.pc, i)
          THEN Machine!Call(Machine!CallTarget(program, s.pc, i), r, l)
          ELSE IF sys THEN Machine!Continue(s.pc + 1, r, s.mem, s.frames, l)
          ELSE Machine!Halt(Machine!Err("UnsupportedInstruction"), s.pc, l)
      BY <1>1, <1>2, <1>3, <1>11, StateFields DEF Machine!CallImm
    <2>3. Machine!State' = Machine!AfterCallImm(program, s, i)
      <3>1. Machine!AfterCallImm(program, s, i) =
              IF sys /\ SyscallFails(s.reg[Machine!R1])
              THEN Machine!Halted(program, s, Machine!Err("SyscallError"), s.final_pc, l)
              ELSE IF Machine!ResolvesToFunction(program, s.pc, i)
              THEN Machine!Called(program, s, Machine!CallTarget(program, s.pc, i), r, l)
              ELSE IF sys THEN Machine!Going(s, s.pc + 1, r, s.mem, s.frames, l)
              ELSE Machine!Halted(program, s, Machine!Err("UnsupportedInstruction"), s.pc, l)
        BY DEF Machine!AfterCallImm
      <3>2. Left # 0
        BY <1>4, <2>1
      <3> HIDE DEF sys, r, l
      <3>3. CASE sys /\ SyscallFails(s.reg[Machine!R1])
        BY <1>1, <1>3, <2>2, <3>1, <3>2, <3>3, HaltDetermined
      <3>4. CASE /\ ~(sys /\ SyscallFails(s.reg[Machine!R1]))
                 /\ Machine!ResolvesToFunction(program, s.pc, i)
        BY <1>1, <1>3, <2>2, <3>1, <3>2, <3>4, CallDetermined
      <3>5. CASE /\ ~(sys /\ SyscallFails(s.reg[Machine!R1])) /\ sys
                 /\ ~Machine!ResolvesToFunction(program, s.pc, i)
        BY <1>1, <1>3, <2>2, <3>1, <3>5, ContinueDetermined
      <3>6. CASE ~sys /\ ~Machine!ResolvesToFunction(program, s.pc, i)
        BY <1>1, <1>3, <2>2, <3>1, <3>2, <3>6, HaltDetermined
      <3>7. QED
        BY <3>3, <3>4, <3>5, <3>6
    <2>4. Machine!AfterInsn(program, s, i) = Machine!AfterCallImm(program, s, i)
      BY <2>1, InsnDetermined
    <2>5. QED
      BY <1>1, <1>4, <2>1, <2>3, <2>4
  <1>12. CASE Machine!Exit
    <2>1. s.left > 0 /\ s.pc < program.n /\ i.op = "EXIT"
      BY <1>1, <1>2, <1>3, <1>12, StateFields DEF Machine!Exit, Machine!At
    <2> DEFINE top == s.frames[Len(s.frames)]
    <2>2. IF s.frames = << >>
          THEN Machine!Halt(Machine!Ok(s.reg[Machine!R0]), s.final_pc, s.left - 1)
          ELSE IF ~Machine!IsPcInProgram(program, top.target_pc)
          THEN Machine!Halt(Machine!Err("CallOutsideTextSegment"), s.pc, s.left - 1)
          ELSE Machine!Continue(top.target_pc,
                   [s.reg EXCEPT ![Machine!R6] = top.r6, ![Machine!FP] = top.fp],
                   s.mem, SubSeq(s.frames, 1, Len(s.frames) - 1), s.left - 1)
      BY <1>1, <1>2, <1>3, <1>12, StateFields DEF Machine!Exit
    <2>3. Machine!State' = Machine!AfterExit(program, s)
      <3> DEFINE back == [s.reg EXCEPT ![Machine!R6] = top.r6, ![Machine!FP] = top.fp]
                 f == SubSeq(s.frames, 1, Len(s.frames) - 1)
      <3>1. Machine!AfterExit(program, s) =
              IF s.frames = << >>
              THEN Machine!Halted(program, s, Machine!Ok(s.reg[Machine!R0]), s.final_pc,
                                  s.left - 1)
              ELSE IF ~Machine!IsPcInProgram(program, top.target_pc)
              THEN Machine!Halted(program, s, Machine!Err("CallOutsideTextSegment"), s.pc,
                                  s.left - 1)
              ELSE Machine!Going(s, top.target_pc, back, s.mem, f, s.left - 1)
        BY DEF Machine!AfterExit
      <3>2. Left # 0
        BY <1>4, <2>1
      <3>3. CASE s.frames = << >>
        BY <1>1, <1>3, <2>2, <3>1, <3>2, <3>3, HaltDetermined
      <3>4. CASE s.frames # << >> /\ ~Machine!IsPcInProgram(program, top.target_pc)
        BY <1>1, <1>3, <2>2, <3>1, <3>2, <3>4, HaltDetermined
      <3>5. CASE s.frames # << >> /\ Machine!IsPcInProgram(program, top.target_pc)
        <4>1. Machine!Continue(top.target_pc, back, s.mem, f, s.left - 1)
          BY <2>2, <3>5
        <4> HIDE DEF top, back, f
        <4>2. QED
          BY <1>1, <1>3, <3>1, <3>5, <4>1, ContinueDetermined
      <3>6. QED
        BY <3>3, <3>4, <3>5
    <2>4. Machine!AfterInsn(program, s, i) = Machine!AfterExit(program, s)
      BY <2>1, InsnDetermined
    <2>5. QED
      BY <1>1, <1>4, <2>1, <2>3, <2>4
  <1>13. CASE Machine!Unsupported
    <2>1. /\ s.left > 0 /\ s.pc < program.n /\ Machine!IsUnsupported(program, i)
          /\ Machine!Halt(Machine!Err("UnsupportedInstruction"), s.pc, s.left - 1)
      BY <1>1, <1>2, <1>3, <1>13, StateFields DEF Machine!Unsupported
    <2>2. Left # 0
      BY <1>4, <2>1
    <2> DEFINE e == Machine!Err("UnsupportedInstruction")
    <2>3. Machine!State' = Machine!Halted(program, s, e, s.pc, s.left - 1)
      BY <1>1, <1>3, <2>1, <2>2, HaltDetermined
    <2>4. Machine!AfterInsn(program, s, i) = Machine!Halted(program, s, e, s.pc, s.left - 1)
      BY <2>1, InsnDetermined
    <2>5. QED
      BY <1>1, <1>4, <2>1, <2>3, <2>4
  <1>14. ~Machine!Start
    BY <1>3 DEF Machine!Start
  <1>15. QED
    BY <1>5, <1>6, <1>7, <1>8, <1>9, <1>10, <1>11, <1>12, <1>13, <1>14 DEF Machine!Next

(* What an execution cannot say before its end: what it has traced is the  *)
(* pc and the registers of the states that executed an instruction.        *)
Entry(s) == [pc |-> s.pc, reg |-> s.reg]

(* A step of the interpreter goes to the next state.                       *)
LEMMA StepDetermined ==
    ASSUME RefInv, Step, phase' # "panicked"
    PROVE  Machine!State' = Machine!After(program, Machine!State)
  <1>1. phase = "running"
    BY DEF Step, StepExceeded, StepOverrun, StepData, StepLoadDoubleWord, StepJump,
           StepCallReg, StepCallImm, StepExit, StepUnsupported, Fetch
  <1>2. Typed
    <2>1. /\ previous_instruction_meter \in Nat /\ due_insn_count \in Nat
          /\ due_insn_count <= previous_instruction_meter /\ pc \in Nat
      BY <1>1, SMTT(60) DEF RefInv, TypeOK, MeterConsistent
    <2>2. previous_instruction_meter - due_insn_count \in Nat
      BY <2>1
    <2>3. program.n \in Nat
      BY DEF RefInv, TypeOK, IsProgram
    <2>4. QED
      BY <1>1, <2>1, <2>2, <2>3 DEF Typed, Left
  <1>3. Machine!Next
    BY ExceedImplements, OverrunImplements, DataImplements, LoadDoubleWordImplements,
       JumpImplements, CallRegImplements, CallImmImplements, ExitImplements,
       UnsupportedImplements DEF Step, Machine!Next
  <1>4. QED
    BY <1>2, <1>3, Determined

(* It traces the state, if it executes an instruction, or ends.            *)
LEMMA StepTraces ==
    ASSUME RefInv, Step, NEW s, s = Machine!State
    PROVE  /\ phase = "running" /\ s.running = TRUE
           /\ initial_insn_count' = initial_insn_count /\ runs' = runs /\ program' = program
           /\ \/ phase' = "stopped" /\ register_trace' = register_trace
              \/ /\ s.left > 0 /\ s.pc < program.n
                 /\ register_trace' = Append(register_trace, Entry(s))
  <1>1. CASE StepExceeded \/ StepOverrun
    BY <1>1 DEF StepExceeded, StepOverrun, ThrowError, returnVars, Machine!State
  <1>2. CASE Fetch
    <2>1. phase = "running" /\ Left > 0
      BY <1>2, Paid
    <2>2. s.left = Left /\ s.pc = pc /\ s.reg = reg
      BY <2>1, StateFields, Shown
    <2>3. QED
      BY <1>2, <2>1, <2>2 DEF Fetch, Entry, returnVars, Machine!State
  <1>3. QED
    BY <1>1, <1>2 DEF Step, StepData, StepLoadDoubleWord, StepJump,
           StepCallReg, StepCallImm, StepExit, StepUnsupported

(* An execution starts with the VM's registers and memory.                 *)
LEMMA StartDetermined ==
    ASSUME RefInv, NEW budget \in Budgets, ExecuteProgram(budget), call_depth = 0
    PROVE  Machine!State' = Machine!Started(program, registers, mem, budget, result)
  <1>1. /\ phase \in {"idle", "done"} /\ phase' = "running"
        /\ program' = program /\ previous_instruction_meter' = budget
        /\ due_insn_count' = 0 /\ registers11' = program.entry
        /\ reg' = registers /\ pc' = program.entry
        /\ UNCHANGED <<frameVars, mem, result>>
    BY DEF ExecuteProgram
  <1>2. budget \in Nat
    BY ProgramsAssumption
  <1>3. Left' = budget
    BY <1>1, <1>2 DEF Left
  <1>4. call_depth' = 0
    BY <1>1 DEF frameVars
  <1>5. Stack' = << >>
    BY <1>4 DEF Stack
  <1>6. /\ Observable(reg)' = Machine!Visible(budget, registers)
        /\ Observable(Stack)' = Machine!Visible(budget, << >>)
        /\ (IF phase' = "running" /\ Left' = 0 THEN Dead ELSE mem')
              = Machine!Visible(budget, mem)
    BY <1>1, <1>2, <1>3, <1>5 DEF Observable, Machine!Visible
  <1>7. QED
    BY <1>1, <1>3, <1>6 DEF ExecuteProgram, Machine!State, Machine!Started, Stack

(* What execute_program does after the loop.                               *)
LEMMA FinishDetermined ==
    ASSUME RefInv, Finish
    PROVE  /\ Machine!State' = Machine!State
           /\ phase = "stopped" /\ phase' = "done" /\ runs' = runs /\ program' = program
           /\ register_trace' = register_trace /\ initial_insn_count' = initial_insn_count
           /\ instruction_count' = SaturatingSub(initial_insn_count, remaining')
  <1>1. UNCHANGED Machine!vars
    BY FinishStutters
  <1>2. QED
    BY <1>1 DEF Finish, Machine!vars, Machine!State

(* An execution so far: the states h[0] .. h[n] it went through, of which  *)
(* it has traced those that executed an instruction.                       *)
History(h, n) ==
    /\ \A i \in 0..n-1 : h[i].running = TRUE /\ h[i + 1] = Machine!After(program, h[i])
    /\ h[n] = Machine!State
    /\ \A i \in 1..Len(register_trace) :
          /\ i <= n /\ h[i - 1].left > 0 /\ h[i - 1].pc < program.n
          /\ register_trace[i] = Entry(h[i - 1])
    /\ phase = "running" => Len(register_trace) = n

(* A step of the interpreter adds a state.                                 *)
LEMMA StepHistory ==
    ASSUME RefInv, Step, phase' # "panicked", NEW n \in Nat, NEW h, History(h, n)
    PROVE  \E g : g[0] = h[0] /\ History(g, n + 1)'
  <1> DEFINE s == Machine!State
  <1>0. PICK g : g = [i \in 0..n+1 |-> IF i <= n THEN h[i] ELSE Machine!State']
    OBVIOUS
  <1>1. /\ s.running = TRUE /\ program' = program /\ phase = "running"
        /\ \/ phase' = "stopped" /\ register_trace' = register_trace
           \/ /\ s.left > 0 /\ s.pc < program.n
              /\ register_trace' = Append(register_trace, Entry(s))
    BY StepTraces
  <1>2. Machine!State' = Machine!After(program, s)
    BY StepDetermined
  <1>3. /\ h[n] = s /\ Len(register_trace) = n
        /\ \A i \in 0..n-1 : h[i].running = TRUE /\ h[i + 1] = Machine!After(program, h[i])
        /\ \A i \in 1..n :
              /\ h[i - 1].left > 0 /\ h[i - 1].pc < program.n
              /\ register_trace[i] = Entry(h[i - 1])
    BY <1>1 DEF History
  <1>4. register_trace \in Seq([pc : Nat, reg : [Registers -> Words]])
    BY DEF RefInv, TypeOK
  <1> HIDE DEF s
  <1>5. /\ \A i \in 0..n : g[i] = h[i]
        /\ g[n + 1] = Machine!State'
    <2>1. \A i \in 0..n : i \in 0..n+1 /\ i <= n
      OBVIOUS
    <2>2. n + 1 \in 0..n+1 /\ ~(n + 1 <= n)
      OBVIOUS
    <2>3. QED
      BY <1>0, <2>1, <2>2
  <1>n. g[n] = s
    <2>1. n \in 0..n
      OBVIOUS
    <2>2. QED
      BY <1>3, <1>5, <2>1
  <1>6. \A i \in 0..(n+1)-1 : g[i].running = TRUE /\ g[i + 1] = Machine!After(program, g[i])
    <2> TAKE i \in 0..(n+1)-1
    <2>1. CASE i = n
      BY <1>1, <1>2, <1>5, <1>n, <2>1
    <2>2. CASE i # n
      <3>1. i \in 0..n-1 /\ i \in 0..n /\ i + 1 \in 0..n
        BY <2>2
      <3>2. QED
        BY <1>3, <1>5, <3>1
    <2>3. QED
      BY <2>1, <2>2
  <1>7. \A i \in 1..n : g[i - 1] = h[i - 1] /\ i <= n + 1
    <2>1. \A i \in 1..n : i - 1 \in 0..n /\ i <= n + 1
      OBVIOUS
    <2>2. QED
      BY <1>5, <2>1
  <1>8. /\ \A i \in 1..Len(register_trace') :
              /\ i <= n + 1 /\ g[i - 1].left > 0 /\ g[i - 1].pc < program.n
              /\ register_trace'[i] = Entry(g[i - 1])
        /\ phase' = "running" => Len(register_trace') = n + 1
    <2>1. CASE register_trace' = register_trace /\ phase' = "stopped"
      BY <1>3, <1>7, <2>1
    <2>2. CASE /\ s.left > 0 /\ s.pc < program.n
               /\ register_trace' = Append(register_trace, Entry(s))
      <3>1. /\ Len(register_trace') = n + 1 /\ register_trace'[n + 1] = Entry(s)
            /\ \A i \in 1..n : register_trace'[i] = register_trace[i]
        BY <1>3, <1>4, <2>2
      <3>2. g[(n + 1) - 1] = s
        <4>1. (n + 1) - 1 = n
          OBVIOUS
        <4>2. QED
          BY <1>n, <4>1
      <3>3. \A i \in 1..n+1 : i \in 1..n \/ i = n + 1
        OBVIOUS
      <3>4. ASSUME NEW i \in 1..n+1
            PROVE  /\ i <= n + 1 /\ g[i - 1].left > 0 /\ g[i - 1].pc < program.n
                   /\ register_trace'[i] = Entry(g[i - 1])
        <4>1. CASE i \in 1..n
          BY <1>3, <1>7, <3>1, <4>1
        <4>2. CASE i = n + 1
          BY <2>2, <3>1, <3>2, <4>2
        <4>3. QED
          BY <3>3, <4>1, <4>2
      <3>5. QED
        BY <3>1, <3>4
    <2>3. QED
      BY <1>1, <2>1, <2>2
  <1>9. History(g, n + 1)'
    BY <1>1, <1>5, <1>6, <1>8 DEF History
  <1>10. g[0] = h[0]
    BY <1>5
  <1>11. QED
    BY <1>9, <1>10

(* It starts with one.                                                     *)
LEMMA StartHistory ==
    ASSUME RefInv, NEW budget \in Budgets, ExecuteProgram(budget), call_depth = 0,
           register_trace = << >>
    PROVE  \E g : g[0] = Machine!Started(program, registers, mem, budget, result)
                  /\ History(g, 0)'
  <1>0. PICK g : g = [i \in {0} |-> Machine!State']
    OBVIOUS
  <1>1. /\ Machine!State' = Machine!Started(program, registers, mem, budget, result)
        /\ register_trace' = << >>
    BY StartDetermined DEF ExecuteProgram
  <1>2. g[0] = Machine!State'
    BY <1>0
  <1>3. Len(register_trace') = 0
    BY <1>1
  <1>4. 0..0-1 = {} /\ 1..0 = {}
    OBVIOUS
  <1>5. History(g, 0)'
    BY <1>2, <1>3, <1>4 DEF History
  <1>6. QED
    BY <1>1, <1>2, <1>5

(* It ends with one that runs no more.                                     *)
LEMMA FinishHistory ==
    ASSUME RefInv, Finish, NEW n \in Nat, NEW h, History(h, n)
    PROVE  History(h, n)'
  <1>1. /\ Machine!State' = Machine!State /\ phase' = "done" /\ program' = program
        /\ register_trace' = register_trace
    BY FinishDetermined
  <1>2. QED
    BY <1>1 DEF History

(* Nothing else disturbs it.                                               *)
LEMMA HistoryStays ==
    ASSUME UNCHANGED vars, NEW n, NEW h, History(h, n)
    PROVE  History(h, n)'
  <1>1. UNCHANGED <<program, phase, call_depth, call_frames, remaining,
                    previous_instruction_meter, due_insn_count, registers11,
                    program_result, register_trace, mem, reg, pc, result>>
    BY DEF vars, meterVars, frameVars, returnVars
  <1>2. Left' = Left
    BY <1>1 DEF Left
  <1>3. Machine!State' = Machine!State
    BY <1>1, <1>2 DEF Machine!State, Observable
  <1>4. QED
    BY <1>1, <1>3 DEF History

(* What a new VM starts its first execution with.                          *)
NewRegisters == [r \in Registers |-> IF r = FP THEN InitialFramePointer(program.version) ELSE 0]
Begun == Machine!Started(program, NewRegisters, 0, initial_insn_count, Ok(0))

(* A VM that has executed nothing is as EbpfVm::new made it; its first     *)
(* execution begins without calls and has a history; and what an execution *)
(* has cost is what is missing from its budget.                            *)
FirstRun ==
    /\ runs \in Nat /\ (phase = "idle" <=> runs = 0)
    /\ runs = 0 => /\ registers = NewRegisters /\ mem = 0 /\ call_depth = 0
                   /\ register_trace = << >> /\ result = Ok(0)
    /\ runs = 1 => leftover = 0 /\ \E n \in Nat : \E h : h[0] = Begun /\ History(h, n)
    /\ phase # "idle" => initial_insn_count \in Budgets
    /\ phase = "done" => instruction_count = SaturatingSub(initial_insn_count, remaining)

LEMMA FirstRunInit == Init => FirstRun
  BY SMTT(60) DEF Init, FirstRun, NewRegisters

LEMMA BegunStays ==
    ASSUME program' = program
    PROVE  /\ NewRegisters' = NewRegisters
           /\ Begun' = Machine!Started(program, NewRegisters, 0, initial_insn_count', Ok(0))
  <1>1. NewRegisters' = NewRegisters
    BY DEF NewRegisters
  <1>2. QED
    BY <1>1 DEF Begun

(* What Interpreter::step does to the phase.                               *)
LEMMA StepPhase ==
    Step => /\ phase = "running" /\ phase' \in {"running", "stopped", "panicked"}
            /\ leftover' = leftover
  BY DEF Step, StepExceeded, StepOverrun, StepData, StepLoadDoubleWord, StepJump,
     StepCallReg, StepCallImm, StepExit, StepUnsupported, Fetch, Charge, ThrowError,
     GoOn, CallFunction, PushFrame, returnVars

(* Every step keeps it.                                                    *)
LEMMA FirstRunStep == IndInv /\ FirstRun /\ [Next]_vars => FirstRun'
  <1> SUFFICES ASSUME IndInv, FirstRun, [Next]_vars PROVE FirstRun'
    OBVIOUS
  <1>0. RefInv /\ FreeFrame'
    BY IndInvStep DEF IndInv, DepthInv
  <1>1. CASE UNCHANGED vars
    <2>1. UNCHANGED <<runs, phase, registers, mem, register_trace, result, program,
                      initial_insn_count, instruction_count, remaining, call_depth,
                      leftover>>
      BY <1>1 DEF vars, meterVars, frameVars, returnVars
    <2>2. NewRegisters' = NewRegisters /\ Begun' = Begun
      BY <2>1, BegunStays DEF Begun
    <2>3. runs = 1 => \E n \in Nat : \E h : h[0] = Begun' /\ History(h, n)'
      BY <1>1, <2>2, HistoryStays DEF FirstRun
    <2>4. QED
      BY <2>1, <2>2, <2>3 DEF FirstRun
  <1>2. ASSUME NEW budget \in Budgets, ExecuteProgram(budget) PROVE FirstRun'
    <2>1. /\ phase' = "running" /\ runs' = runs + 1 /\ initial_insn_count' = budget
          /\ program' = program /\ leftover' = call_depth
      BY <1>2 DEF ExecuteProgram
    <2>2. runs \in Nat /\ runs' \in Nat /\ runs' # 0 /\ (runs' = 1 => runs = 0)
      BY <2>1 DEF FirstRun
    <2>3. ASSUME runs' = 1
          PROVE  leftover' = 0 /\ \E n \in Nat : \E h : h[0] = Begun' /\ History(h, n)'
      <3>1. /\ registers = NewRegisters /\ mem = 0 /\ register_trace = << >>
            /\ result = Ok(0) /\ call_depth = 0
        BY <2>2, <2>3 DEF FirstRun
      <3>2. PICK g : /\ g[0] = Machine!Started(program, registers, mem, budget, result)
                     /\ History(g, 0)'
        BY <1>0, <1>2, <3>1, StartHistory
      <3>3. g[0] = Begun'
        BY <2>1, <3>1, <3>2, BegunStays
      <3>4. QED
        BY <2>1, <3>1, <3>2, <3>3
    <2>4. QED
      BY <2>1, <2>2, <2>3 DEF FirstRun
  <1>3. CASE Step
    <2>1. /\ phase = "running" /\ runs' = runs /\ initial_insn_count' = initial_insn_count
          /\ program' = program
      BY <1>0, <1>3, StepTraces
    <2>2. phase' \in {"running", "stopped", "panicked"} /\ leftover' = leftover
      BY <1>3, StepPhase
    <2>p. ASSUME runs = 1 PROVE phase' # "panicked"
      <3>1. leftover' = 0 /\ MaxCallDepth # 0
        BY <2>2, <2>p, ConfigAssumption DEF FirstRun
      <3>2. QED
        BY <1>0, <3>1 DEF FreeFrame
    <2>3. ASSUME runs = 1 PROVE \E n \in Nat : \E h : h[0] = Begun' /\ History(h, n)'
      <3>1. PICK n \in Nat : \E h : h[0] = Begun /\ History(h, n)
        BY <2>3 DEF FirstRun
      <3>2. PICK h : h[0] = Begun /\ History(h, n)
        BY <3>1
      <3>3. PICK g : g[0] = h[0] /\ History(g, n + 1)'
        BY <1>0, <1>3, <2>p, <2>3, <3>2, StepHistory
      <3>4. g[0] = Begun'
        BY <2>1, <3>2, <3>3, BegunStays DEF Begun
      <3>5. QED
        BY <3>3, <3>4
    <2>4. QED
      BY <2>1, <2>2, <2>3 DEF FirstRun
  <1>4. CASE Finish
    <2>1. /\ phase = "stopped" /\ phase' = "done" /\ runs' = runs /\ program' = program
          /\ initial_insn_count' = initial_insn_count
          /\ instruction_count' = SaturatingSub(initial_insn_count', remaining')
          /\ leftover' = leftover
      BY <1>0, <1>4, FinishDetermined DEF Finish
    <2>2. Begun' = Begun
      BY <2>1, BegunStays DEF Begun
    <2>3. runs = 1 => \E n \in Nat : \E h : h[0] = Begun' /\ History(h, n)'
      BY <1>0, <1>4, <2>2, FinishHistory DEF FirstRun
    <2>4. QED
      BY <2>1, <2>3 DEF FirstRun, SaturatingSub
  <1>5. QED
    BY <1>1, <1>2, <1>3, <1>4 DEF Next

(* Only the start of an execution is counted.                              *)
LEMMA RunsCounted ==
    ASSUME RefInv, Next
    PROVE  /\ program' = program
           /\ \/ phase \in {"idle", "done"} /\ runs' = runs + 1
              \/ phase \in {"running", "stopped"} /\ runs' = runs
  <1>1. ASSUME NEW budget \in Budgets, ExecuteProgram(budget)
        PROVE  program' = program /\ phase \in {"idle", "done"} /\ runs' = runs + 1
    BY <1>1 DEF ExecuteProgram
  <1>2. QED
    BY <1>1, StepTraces, FinishDetermined DEF Next

(* What can be seen of an execution that is over.                          *)
LEMMA DoneState ==
    ASSUME phase = "done", NEW s, s = Machine!State
    PROVE  /\ s.running = FALSE /\ s.result = result /\ s.left = remaining
           /\ s.final_pc = registers11
           /\ result # Err("ExceededMaxInstructions") => s.mem = mem
  <1>1. Machine!Exceeded = Err("ExceededMaxInstructions")
    BY DEF Machine!Exceeded, Machine!Err, Err
  <1>2. s.running = FALSE
    <2>1. s.running = (phase = "running")
      BY DEF Machine!State
    <2>2. (phase = "running") = FALSE
      OBVIOUS
    <2>3. QED
      BY <2>1, <2>2
  <1>3. s.result = result /\ s.left = remaining /\ s.final_pc = registers11
    BY DEF Machine!State, Left
  <1>4. result # Err("ExceededMaxInstructions") => s.mem = mem
    BY <1>1 DEF Machine!State
  <1>5. QED
    BY <1>2, <1>3, <1>4

-----------------------------------------------------------------------------
(* The debugger.                                                           *)

(* The client was told of the end that a result stands for.                *)
ReportedAs(r) ==
    IF r.tag = "Ok" THEN reported = Exited(ExitCode(r.value))
    ELSE reported.tag = "Terminated"

(* Where the loop of `execute' is determines what has become of the        *)
(* program.  The session ends only after a report of the end or a detach.  *)
SessionInv ==
    /\ dbg \in {"off", "idle", "running", "interrupted", "stepped", "disconnected",
                "panicked"}
    /\ dbg = "off" => phase \in {"idle", "stopped", "done"}
    /\ dbg \in {"idle", "running", "interrupted"} => phase = "running"
    /\ dbg = "panicked" => phase \in {"running", "panicked"}
    /\ dbg = "stepped" => phase \in {"running", "stopped"}
    /\ dbg \notin {"off", "disconnected"} => ~detached
    /\ dbg = "disconnected" => phase = (IF detached THEN "running" ELSE "stopped")
    /\ phase = "stopped" /\ dbg \in {"off", "disconnected"} /\ ~detached =>
          ReportedAs(program_result)
    /\ EndReported

(* A program that runs on in Continue was not stopped where it is.         *)
ResumedInv ==
    dbg = "running" /\ debug_state = "Continue" /\ ~fresh => ~Hits(get_dbg_pc)

(* A client that has not disturbed the VM has an interpreter that is as    *)
(* good as one without a debugger, but for a frame to spare once an end    *)
(* was hidden.                                                             *)
DebugInv ==
    /\ SessionInv
    /\ ResumedInv
    /\ fresh \in BOOLEAN /\ disturbed \in BOOLEAN /\ detached \in BOOLEAN
    /\ hidden \in BOOLEAN
    /\ detached => disturbed
    /\ ~disturbed => RefInv
    /\ ~disturbed /\ ~hidden => FreeFrame

(* A new VM, which no debugger has been attached to.                       *)
LEMMA DebugInvInit == DebugInit => DebugInv
  BY RefInvInit DEF DebugInit, Init, DebugInv, SessionInv, ResumedInv, EndReported, FreeFrame

-----------------------------------------------------------------------------
(* What the steps of a debugged program mean to the interpreter.           *)

(* What a command of the client may do: all but a detach leave the loop    *)
(* running, and what writes to the interpreter disturbs it.                *)
Handled ==
    /\ dbg = "idle" /\ dbg' \in {"idle", "running", "panicked", "disconnected"}
    /\ phase' = phase /\ disturbed' \in BOOLEAN /\ detached' \in BOOLEAN
    /\ fresh' \in BOOLEAN /\ hidden' = hidden
    /\ dbg' = "running" => fresh'
    /\ IF dbg' = "disconnected" THEN detached' /\ disturbed' ELSE detached' = detached
    /\ disturbed => disturbed'
    /\ disturbed' \/ UNCHANGED vars

LEMMA ClientHandled ==
    ASSUME Client, disturbed \in BOOLEAN, detached \in BOOLEAN, fresh \in BOOLEAN
    PROVE  Handled
  <1> USE DEF Command, Handled
  <1>1. ASSUME NEW r, Command, Answer(r), UNCHANGED dbg PROVE Handled
    BY <1>1 DEF Answer, historyVars, vars
  <1>2. ASSUME Command, Written PROVE Handled
    BY <1>2 DEF Written
  <1>3. CASE read_registers
    BY <1>1, <1>3 DEF read_registers
  <1>4. CASE write_registers
    BY <1>2, <1>4 DEF write_registers
  <1>5. CASE SessionFails
    BY <1>5 DEF SessionFails, historyVars, vars
  <1>6. CASE Detach
    BY <1>6 DEF Detach, vars
  <1>7. ASSUME NEW addr \in ClientAddresses, read_addrs(addr) PROVE Handled
    BY <1>1, <1>7 DEF read_addrs
  <1>8. ASSUME NEW addr \in ClientAddresses, add_sw_breakpoint(addr) PROVE Handled
    BY <1>8 DEF add_sw_breakpoint, historyVars, vars
  <1>9. ASSUME NEW addr \in ClientAddresses, remove_sw_breakpoint(addr) PROVE Handled
    BY <1>9 DEF remove_sw_breakpoint, historyVars, vars
  <1>10. ASSUME NEW v \in ClientValues, write_pc(v) PROVE Handled
    BY <1>2, <1>10 DEF write_pc
  <1>11. ASSUME NEW v \in ClientValues, NEW r \in Registers, write_register(r, v)
         PROVE  Handled
    BY <1>2, <1>11 DEF write_register
  <1>12. ASSUME NEW mode \in {"Continue", "Step"}, resume(mode) PROVE Handled
    BY <1>12 DEF resume, vars
  <1>13. QED
    BY <1>3, <1>4, <1>5, <1>6, <1>7, <1>8, <1>9, <1>10, <1>11, <1>12 DEF Client

(* The end of the program is what report_stop says it is.                  *)
LEMMA EndReason ==
    ASSUME StopReason.tag \in EndReasons
    PROVE  /\ phase = "stopped"
           /\ StopReason = IF program_result.tag = "Ok"
                           THEN Exited(ExitCode(program_result.value))
                           ELSE Reason("Terminated")
  BY DEF StopReason, EndReasons, Reason, Exited

(* Nothing stops a program that runs on.                                   *)
LEMMA NoReason ==
    ASSUME StopReason.tag = "none"
    PROVE  phase # "stopped" /\ ~Hits(get_dbg_pc)
  BY DEF StopReason, Reason, Exited

(* Unless the client disturbs it, the VM takes the interpreter's steps, or *)
(* its end is hidden.                                                      *)
LEMMA UndisturbedSteps ==
    ASSUME DebugInv, [DebugNext]_debugVars, ~disturbed'
    PROVE  ~disturbed /\ ([Next]_vars \/ EndHidden)
  <1> USE DEF DebugInv
  <1>1. CASE UNCHANGED debugVars
    BY <1>1 DEF debugVars, historyVars
  <1>2. ASSUME NEW budget \in Budgets, Attach(budget) PROVE ~disturbed /\ [Next]_vars
    BY <1>2 DEF Attach, Next
  <1>3. CASE Client
    BY <1>3, ClientHandled DEF Handled
  <1>4. ASSUME NEW byte \in {"CtrlC", "other"}, PeekByte(byte)
        PROVE  ~disturbed /\ [Next]_vars
    BY <1>4 DEF PeekByte, historyVars
  <1>5. CASE InterruptHandled
    BY <1>5 DEF InterruptHandled, historyVars
  <1>6. CASE StepOnce
    BY <1>6 DEF StepOnce, Next
  <1>7. CASE ReportStop
    <2>1. ~disturbed
      BY <1>7 DEF ReportStop
    <2>2. CASE phase = "stopped" /\ phase' = "running"
      BY <1>7, <2>1, <2>2 DEF EndHidden
    <2>3. CASE ~(phase = "stopped" /\ phase' = "running")
      <3>1. phase' = phase
        BY <1>7, <2>3 DEF ReportStop
      <3>2. QED
        BY <1>7, <2>1, <3>1 DEF ReportStop, vars
    <2>4. QED
      BY <2>2, <2>3
  <1>8. CASE LeaveLoop
    <2>1. disturbed' = disturbed /\ detached' = detached
      BY <1>8 DEF LeaveLoop, historyVars
    <2>2. phase' = phase
      BY <1>8, <2>1 DEF LeaveLoop, SessionInv
    <2>3. QED
      BY <1>8, <2>1, <2>2 DEF LeaveLoop, vars
  <1>9. CASE FinishDebugged
    BY <1>9 DEF FinishDebugged, historyVars, Next
  <1>10. QED
    BY <1>1, <1>2, <1>3, <1>4, <1>5, <1>6, <1>7, <1>8, <1>9
       DEF DebugNext, DebugLoop

(* An end that is hidden leaves the rest of the VM as it is.               *)
LEMMA HiddenKeeps == RefInv /\ EndHidden => RefInv' /\ hidden'
  <1> SUFFICES ASSUME RefInv, EndHidden PROVE RefInv' /\ hidden'
    OBVIOUS
  <1>1. hidden'
    BY DEF EndHidden, ReportStop
  <1>2. RefInv'
    BY DEF EndHidden, ReportStop, RefInv, TypeOK, MeterConsistent, KeptFramePointer, KeptR6,
       meterVars, frameVars, returnVars
  <1>3. QED
    BY <1>1, <1>2

(* Only a new execution forgets that an end was hidden.                    *)
LEMMA HiddenForgotten ==
    ASSUME DebugInv, [DebugNext]_debugVars, ~hidden'
    PROVE  ~hidden \/ FreeFrame'
  <1>1. ASSUME NEW budget \in Budgets, Attach(budget) PROVE FreeFrame'
    BY <1>1, StartsFree DEF Attach
  <1>2. Client => hidden' = hidden
    BY ClientHandled DEF DebugInv, Handled
  <1>3. QED
    BY <1>1, <1>2 DEF DebugInv, DebugNext, DebugLoop, PeekByte, InterruptHandled, StepOnce,
       ReportStop, LeaveLoop, FinishDebugged, historyVars, debugVars

(* A step that panics hides no end.                                        *)
LEMMA PanicHidesNothing ==
    ASSUME DebugInv, [DebugNext]_debugVars, phase' = "panicked", hidden'
    PROVE  hidden
  <1>1. ASSUME NEW budget \in Budgets, Attach(budget) PROVE hidden
    BY <1>1 DEF Attach
  <1>2. CASE ReportStop
    BY <1>2 DEF ReportStop, DebugInv
  <1>3. Client => hidden' = hidden
    BY ClientHandled DEF DebugInv, Handled
  <1>4. QED
    BY <1>1, <1>2, <1>3 DEF DebugInv, DebugNext, DebugLoop, PeekByte, InterruptHandled,
       StepOnce, LeaveLoop, FinishDebugged, historyVars, debugVars

(* A frame stays free until an end is hidden.                              *)
LEMMA FreeStays ==
    ASSUME DebugInv, [DebugNext]_debugVars, ~disturbed', ~hidden'
    PROVE  FreeFrame'
  <1>1. CASE hidden
    BY <1>1, HiddenForgotten
  <1>2. CASE ~hidden
    <2>1. ~disturbed /\ RefInv /\ FreeFrame /\ [Next]_vars
      BY <1>2, UndisturbedSteps, HiddenKeeps DEF DebugInv
    <2>2. QED
      BY <2>1, DepthStep DEF RefInv, DepthKept
  <1>3. QED
    BY <1>1, <1>2 DEF DebugInv

-----------------------------------------------------------------------------
(* Every step keeps the invariant.                                         *)
LEMMA DebugInvStep == DebugInv /\ [DebugNext]_debugVars => DebugInv'
  <1> SUFFICES ASSUME DebugInv, [DebugNext]_debugVars PROVE DebugInv'
    OBVIOUS
  <1>ref. ~disturbed' => RefInv'
    BY UndisturbedSteps, RefInvStep, HiddenKeeps DEF DebugInv
  <1>free. ~disturbed' /\ ~hidden' => FreeFrame'
    BY FreeStays
  <1>flags. /\ fresh \in BOOLEAN /\ disturbed \in BOOLEAN /\ detached \in BOOLEAN
            /\ hidden \in BOOLEAN
    BY DEF DebugInv
  <1> DEFINE Rest == /\ SessionInv' /\ ResumedInv'
                     /\ fresh' \in BOOLEAN /\ disturbed' \in BOOLEAN
                     /\ detached' \in BOOLEAN /\ hidden' \in BOOLEAN
                     /\ detached' => disturbed'
  <1> SUFFICES Rest
    BY <1>ref, <1>free DEF DebugInv
  <1> USE DEF DebugInv
  <1>1. CASE UNCHANGED debugVars
    <2>1. /\ dbg' = dbg /\ debug_state' = debug_state /\ breakpoints' = breakpoints
          /\ reported' = reported /\ fresh' = fresh /\ disturbed' = disturbed
          /\ detached' = detached /\ hidden' = hidden /\ phase' = phase /\ result' = result
          /\ program_result' = program_result /\ pc' = pc
      BY <1>1 DEF debugVars, historyVars, sessionVars, vars, returnVars
    <2>2. SessionInv'
      BY <2>1 DEF SessionInv, ReportedAs, EndReported
    <2>3. ResumedInv'
      BY <2>1 DEF ResumedInv, Hits, get_dbg_pc
    <2>4. QED
      BY <2>1, <2>2, <2>3
  <1>2. ASSUME NEW budget \in Budgets, Attach(budget) PROVE Rest
    BY <1>2 DEF Attach, ExecuteProgram, SessionInv, ResumedInv, EndReported
  <1>3. CASE Client
    BY <1>3, ClientHandled DEF Handled, SessionInv, ResumedInv, EndReported
  <1>4. ASSUME NEW byte \in {"CtrlC", "other"}, PeekByte(byte) PROVE Rest
    BY <1>4 DEF PeekByte, historyVars, vars, SessionInv, ResumedInv, EndReported, Hits,
       get_dbg_pc
  <1>5. CASE InterruptHandled
    BY <1>5 DEF InterruptHandled, historyVars, vars, SessionInv, ResumedInv, EndReported
  <1>6. CASE StepOnce
    BY <1>6, StepPhase DEF StepOnce, SessionInv, ResumedInv, EndReported
  <1>8. CASE ReportStop
    <2>1. CASE StopReason.tag = "none"
      BY <1>8, <2>1, NoReason
         DEF ReportStop, SessionInv, ResumedInv, EndReported, Hits, get_dbg_pc, EndReasons
    <2>2. CASE StopReason.tag \in EndReasons
      <3>1. phase' = "stopped" /\ dbg' = "disconnected" /\ reported' = StopReason
        BY <1>8, <2>2, EndReason DEF ReportStop, EndReasons
      <3>2. ReportedAs(program_result)'
        BY <1>8, <2>2, <3>1, EndReason DEF ReportStop, ReportedAs, Reason
      <3>3. ~detached'
        BY <1>8 DEF ReportStop, SessionInv
      <3>4. QED
        BY <1>8, <3>1, <3>2, <3>3 DEF ReportStop, SessionInv, ResumedInv, EndReported
    <2>3. CASE StopReason.tag \notin EndReasons \cup {"none"}
      BY <1>8, <2>3 DEF ReportStop, SessionInv, ResumedInv, EndReported
    <2>4. QED
      BY <2>1, <2>2, <2>3
  <1>9. CASE LeaveLoop
    BY <1>9 DEF LeaveLoop, sessionVars, historyVars, SessionInv, ResumedInv, EndReported,
       ReportedAs
  <1>10. CASE FinishDebugged
    BY <1>10 DEF FinishDebugged, Finish, sessionVars, historyVars, SessionInv, ResumedInv,
       EndReported, ReportedAs
  <1>11. QED
    BY <1>1, <1>2, <1>3, <1>4, <1>5, <1>6, <1>8, <1>9, <1>10
       DEF DebugNext, DebugLoop

-----------------------------------------------------------------------------
(* Whatever the client does, an execution that ends without the client     *)
(* leaving first was reported to it for what it is.                        *)
THEOREM EndIsReported == DebugSpec => []EndReported
  <1>1. DebugInv => EndReported
    BY DEF DebugInv, SessionInv
  <1>2. QED
    BY DebugInvInit, DebugInvStep, <1>1, PTL DEF DebugSpec

(* Continue executes no instruction at a breakpoint but the one the client *)
(* resumed at.                                                             *)
THEOREM ContinueStops == DebugSpec => BreakpointsStop
  <1>1. DebugInv => (StepOnce /\ debug_state = "Continue" /\ ~fresh => ~Hits(get_dbg_pc))
    BY DEF DebugInv, ResumedInv, StepOnce
  <1>2. QED
    BY DebugInvInit, DebugInvStep, <1>1, PTL DEF DebugSpec, BreakpointsStop

(* As long as the client only looks, sets breakpoints, steps and           *)
(* interrupts, the VM takes the steps it would take without a debugger,    *)
(* and one more: a breakpoint at the end of the program, met in a single   *)
(* step, sets it going again.                                              *)
THEOREM DebuggingUndisturbed == DebugSpec => Undisturbed
  <1>1. ASSUME DebugInv, DebugInv', [DebugNext]_debugVars, ~disturbed'
        PROVE  \/ Machine!Next \/ UNCHANGED Machine!vars
               \/ EndHidden
               \/ BeginsWithCalls
               \/ FindsNoFrame /\ (hidden \/ leftover = MaxCallDepth)
    <2>1. RefInv /\ ([Next]_vars \/ EndHidden)
      BY <1>1, UndisturbedSteps DEF DebugInv
    <2>2. CASE EndHidden
      BY <2>2
    <2>3. CASE UNCHANGED vars
      BY <2>3, MachineStays
    <2>4. CASE Next /\ ~FindsNoFrame
      BY <2>1, <2>4, StepImplements
    <2>5. CASE Next /\ FindsNoFrame
      <3>1. phase' = "panicked" /\ leftover' = leftover
        BY <2>1, <2>5, PanicsAtCall DEF FindsNoFrame, RefInv
      <3>2. hidden' => hidden
        BY <1>1, <3>1, PanicHidesNothing
      <3>3. ~hidden' => leftover' = MaxCallDepth
        BY <1>1, <3>1 DEF DebugInv, FreeFrame
      <3>4. QED
        BY <1>1, <2>5, <3>1, <3>2, <3>3 DEF DebugInv
    <2>6. QED
      BY <2>1, <2>2, <2>3, <2>4, <2>5
  <1>2. QED
    BY DebugInvInit, DebugInvStep, <1>1, PTL DEF DebugSpec, Undisturbed

=============================================================================
