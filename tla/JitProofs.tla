----------------------------- MODULE JitProofs ------------------------------
(***************************************************************************)
(* Proofs about the JIT compiled code, for every configuration JitConfig   *)
(* allows: how far it may run past its budget, that the host stack and     *)
(* call_depth go together, and that it implements Execution.               *)
(***************************************************************************)
EXTENDS Jit, VerifierLemmas, TLAPS

(* Zenon first: in large contexts it is much the faster of the two.        *)
USE ZenonT(10), SMTT(60)

-----------------------------------------------------------------------------
(* The inductive invariant.                                                *)

HostFrames == [call_pc : Nat, r6 : Words, fp : Words]

Types ==
    /\ program \in Programs
    /\ phase \in {"compiling", "idle", "running", "stopped", "done"}
    /\ call_depth \in Nat /\ host_stack \in Seq(HostFrames)
    /\ remaining \in Nat /\ previous_instruction_meter \in Nat /\ due_insn_count \in Nat
    /\ initial_insn_count \in Nat /\ leftover \in Nat
    /\ mem \in Words /\ reg \in [Registers -> Words]
    /\ pc \in 0..program.n /\ meter \in Nat

(* The meter reaches no further than what remains of the budget.           *)
Metered ==
    phase = "running" =>
        /\ initial_insn_count \in Budgets
        /\ remaining = previous_instruction_meter
        /\ remaining <= initial_insn_count
        /\ meter <= pc + remaining

(* What an active call has on the host stack, which the epilogue clears,   *)
(* and what call_depth counts.                                             *)
CallSites ==
    \A i \in 1..Len(host_stack) :
        /\ host_stack[i].call_pc < program.n
        /\ program.text[host_stack[i].call_pc].op \in {"CALL_REG", "CALL_IMM"}

Counted ==
    /\ call_depth = leftover + Len(host_stack)
    /\ leftover = 0 => call_depth < MaxCallDepth

Balanced ==
    /\ phase = "running" => Counted
    /\ phase \notin {"running", "stopped"} => host_stack = << >>

(* Code that executes without asking the meter.                            *)
Plain(q) ==
    /\ q \notin checkpoints /\ ~ValidatesMeter(program, q)
    /\ program.text[q].op # "ZERO"

(* There is never more than CheckpointDistance of it in a row, which the   *)
(* compiler knows from where it validated last.                            *)
Compiling ==
    /\ emit_pc \in 0..program.n
    /\ last_instruction_meter_validation_pc \in 0..emit_pc
    /\ checkpoints \subseteq 0..emit_pc-1
    /\ phase # "compiling" => emit_pc = program.n
    /\ phase = "compiling" => \A a \in 0..emit_pc-1 :
          (\A q \in a..emit_pc-1 : Plain(q)) => last_instruction_meter_validation_pc <= a

Windows ==
    \A a \in 0..emit_pc, b \in 0..emit_pc :
        (\A q \in a..b-1 : Plain(q)) => b - a <= CheckpointDistance

(* Past the budget nothing but such code has been executed.                *)
Straight ==
    phase = "running" => \A q \in meter..pc-1 : Plain(q)

JitInv == Types /\ Metered /\ CallSites /\ Balanced /\ Compiling /\ Windows /\ Straight

-----------------------------------------------------------------------------
(* The program.                                                            *)
LEMMA ProgramFacts ==
    ASSUME JitConfig, program \in Programs
    PROVE  /\ IsProgram(program) /\ Accepts(program)
           /\ program.n \in Nat \ {0} /\ program.entry \in 0..program.n-1
           /\ DOMAIN program.text = 0..program.n-1
           /\ \A b \in Budgets : b \in Nat /\ b + program.n < MeterWord
           /\ MeterWord \in Nat /\ CheckpointDistance \in Nat \ {0}
  BY DEF JitConfig, IsProgram

LEMMA JitInvInit == JitConfig /\ Init => JitInv
  <1> SUFFICES ASSUME JitConfig, Init PROVE JitInv
    OBVIOUS
  <1> USE DEF Init, New
  <1>1. /\ program \in Programs /\ program.n \in Nat
        /\ MaxCallDepth \in Nat /\ CheckpointDistance \in Nat
    BY ProgramFacts, ConfigAssumption
  <1>2. Types
    <2>1. reg \in [Registers -> Words] /\ mem \in Words
      BY InitialWords DEF StartRegisters
    <2>2. QED
      BY <1>1, <2>1 DEF Types
  <1>3. Metered /\ CallSites /\ Balanced /\ Straight
    BY DEF Metered, CallSites, Balanced, Straight
  <1>4. Compiling /\ Windows
    BY <1>1 DEF Compiling, Windows
  <1>5. QED
    BY <1>2, <1>3, <1>4 DEF JitInv

-----------------------------------------------------------------------------
(* Compiling.                                                              *)

(* What compiling leaves alone.                                            *)
LEMMA CompilingKeeps ==
    ASSUME JitInv, phase = "compiling", phase' \in {"compiling", "idle"},
           UNCHANGED <<program, callVars, meterVars, mem, pc, meter, reg, returnVars>>
    PROVE  Types' /\ Metered' /\ CallSites' /\ Balanced' /\ Straight'
  BY DEF JitInv, Types, Metered, CallSites, Balanced, Straight, callVars, meterVars,
         returnVars

(* One turn of the loop: the code in front of a validation is short.       *)
LEMMA EmitWindows ==
    ASSUME JitConfig, JitInv, EmitInstruction
    PROVE  Compiling' /\ Windows'
  <1>0. PICK e : e = emit_pc
    OBVIOUS
  <1> DEFINE last == last_instruction_meter_validation_pc
             D == CheckpointDistance
             n == program.n
             due == last + D <= e
  <1>1. /\ program' = program /\ program \in Programs /\ phase = "compiling"
        /\ phase' = "compiling"
        /\ IsProgram(program) /\ Accepts(program)
        /\ n \in Nat /\ D \in Nat \ {0}
        /\ e \in 0..n-1 /\ last \in 0..e /\ checkpoints \subseteq 0..e-1
        /\ emit_pc' = e + Width(program, e)
    BY <1>0, ProgramFacts, SMTT(60) DEF EmitInstruction, JitInv, Types, Compiling
  <1>2. /\ checkpoints' = IF due THEN checkpoints \cup {e} ELSE checkpoints
        /\ last' = IF due \/ ValidatesMeter(program, e) THEN e ELSE last
    BY <1>0 DEF EmitInstruction
  <1>3. \A q \in 0..e-1 : Plain(q)' <=> Plain(q)
    BY <1>1, <1>2 DEF Plain
  <1>4. Plain(e)' => ~due /\ ~ValidatesMeter(program, e)
    BY <1>1, <1>2 DEF Plain
  <1>5. \/ Width(program, e) = 1
        \/ /\ Width(program, e) = 2 /\ e + 2 <= n
           /\ ~Plain(e)' /\ ~Plain(e + 1)'
    <2>1. CASE program.text[e].op = "LD_DW_IMM" /\ ~DisableLddw(program.version)
      <3>1. Width(program, e) = 2
        BY <2>1 DEF Width
      <3>2. e + 2 <= n /\ program.text[e + 1].op = "ZERO"
        BY <1>1, <2>1, AcceptedLoadDoubleWord
      <3>3. ValidatesMeter(program, e)
        BY <2>1 DEF ValidatesMeter
      <3>4. QED
        BY <1>1, <1>4, <3>1, <3>2, <3>3 DEF Plain
    <2>2. QED
      BY <2>1 DEF Width
  <1>6. emit_pc' \in 0..n /\ emit_pc' >= e + 1 /\ last' \in 0..e
    BY <1>1, <1>2, <1>5
  <1>7. checkpoints' \subseteq 0..emit_pc'-1
    BY <1>1, <1>2, <1>6
  <1>8. \A a \in 0..e-1 : (\A q \in a..e-1 : Plain(q)) => last <= a
    BY <1>0, <1>1 DEF JitInv, Compiling
  <1>9. ASSUME NEW a \in 0..emit_pc'-1, \A q \in a..emit_pc'-1 : Plain(q)'
        PROVE  last' <= a
    <2>1. Width(program, e) = 1 /\ emit_pc' = e + 1
      <3>1. CASE Width(program, e) = 2
        <4>1. e + 1 \in a..emit_pc'-1
          BY <1>1, <1>9, <3>1
        <4>2. QED
          BY <1>5, <1>9, <3>1, <4>1
      <3>2. QED
        BY <1>1, <1>5, <3>1
    <2>2. Plain(e)' /\ last' = last
      BY <1>1, <1>2, <1>4, <1>9, <2>1
    <2>3. CASE a = e
      BY <1>1, <2>2, <2>3
    <2>4. CASE a # e
      <3>1. a \in 0..e-1
        BY <1>1, <1>9, <2>1, <2>4
      <3>2. \A q \in a..e-1 : Plain(q)
        BY <1>1, <1>3, <1>9, <2>1, <3>1
      <3>3. QED
        BY <1>8, <2>2, <3>1, <3>2
    <2>5. QED
      BY <2>3, <2>4
  <1>10. Compiling'
    BY <1>1, <1>6, <1>7, <1>9 DEF Compiling
  <1>11. ASSUME NEW a \in 0..emit_pc', NEW b \in 0..emit_pc',
                \A q \in a..b-1 : Plain(q)'
         PROVE  b - a <= D
    <2>1. CASE b <= e
      <3>1. CASE a <= b
        <4>1. a \in 0..e /\ b \in 0..e
          BY <1>1, <1>11, <2>1, <3>1
        <4>2. \A q \in a..b-1 : Plain(q)
          BY <1>1, <1>3, <1>11, <4>1
        <4>3. QED
          BY <1>0, <4>1, <4>2 DEF JitInv, Windows
      <3>2. CASE a > b
        BY <1>1, <1>6, <1>11, <3>2
      <3>3. QED
        BY <1>6, <1>11, <3>1, <3>2
    <2>2. CASE b > e /\ a <= e
      <3>1. e \in a..b-1
        BY <1>1, <1>6, <1>11, <2>2
      <3>2. Plain(e)'
        BY <1>11, <3>1
      <3>3. Width(program, e) = 1 /\ b = e + 1 /\ e < last + D
        BY <1>1, <1>4, <1>5, <1>6, <1>11, <2>2, <3>2
      <3>4. CASE a = e
        BY <1>1, <3>3, <3>4
      <3>5. CASE a # e
        <4>1. a \in 0..e-1
          BY <1>1, <1>6, <1>11, <2>2, <3>5
        <4>2. \A q \in a..e-1 : Plain(q)
          BY <1>1, <1>3, <1>11, <3>3, <4>1
        <4>3. last <= a
          BY <1>8, <4>1, <4>2
        <4>4. QED
          BY <1>1, <3>3, <4>1, <4>3
      <3>6. QED
        BY <3>4, <3>5
    <2>3. CASE b > e /\ a > e
      <3>1. CASE Width(program, e) = 1
        BY <1>1, <1>6, <1>11, <2>3, <3>1
      <3>2. CASE Width(program, e) = 2
        <4>1. b - a <= 1
          BY <1>1, <1>6, <1>11, <2>3, <3>2
        <4>2. QED
          BY <1>1, <1>6, <1>11, <4>1
      <3>3. QED
        BY <1>5, <3>1, <3>2
    <2>4. QED
      BY <1>1, <1>6, <1>11, <2>1, <2>2, <2>3
  <1>12. Windows'
    BY <1>11 DEF Windows
  <1>13. QED
    BY <1>10, <1>12

LEMMA CompileKeeps == JitConfig /\ JitInv /\ Compile => JitInv'
  <1> SUFFICES ASSUME JitConfig, JitInv, Compile PROVE JitInv'
    OBVIOUS
  <1>1. CASE EmitInstruction
    BY <1>1, EmitWindows, CompilingKeeps DEF EmitInstruction, JitInv
  <1>2. CASE EmitBumper
    <2>1. /\ phase = "compiling" /\ phase' = "idle" /\ emit_pc >= program.n
          /\ last_instruction_meter_validation_pc' = emit_pc
          /\ UNCHANGED <<program, emit_pc, checkpoints>>
      BY <1>2 DEF EmitBumper
    <2>2. program.n \in Nat /\ emit_pc = program.n
      BY <2>1, ProgramFacts DEF JitInv, Types, Compiling
    <2>3. Compiling' /\ Windows'
      BY <2>1, <2>2 DEF JitInv, Compiling, Windows, Plain
    <2>4. QED
      BY <1>2, <2>1, <2>3, CompilingKeeps DEF EmitBumper, JitInv
  <1>3. QED
    BY <1>1, <1>2 DEF Compile

-----------------------------------------------------------------------------
(* The shapes of a step of the emitted code.                               *)

(* What no step of the emitted code changes.                               *)
Code == <<program, compilerVars, initial_insn_count, result, leftover>>

LEMMA CodeKept ==
    ASSUME JitInv, phase # "compiling", phase' # "compiling", UNCHANGED Code
    PROVE  Compiling' /\ Windows'
  BY DEF JitInv, Compiling, Windows, Plain, Code, compilerVars

(* It goes on with l units of the budget left.                             *)
LEMMA GoesOn ==
    ASSUME JitConfig, JitInv, phase = "running", phase' = "running", UNCHANGED Code,
           NEW to \in 0..program.n, NEW l \in Nat, NEW rest \in Nat,
           l <= rest, rest <= remaining, pc' = to, meter' = to + l, remaining' = rest,
           previous_instruction_meter' = rest, due_insn_count' \in Nat,
           mem' \in Words, reg' \in [Registers -> Words],
           host_stack' \in Seq(HostFrames), Counted', CallSites'
    PROVE  JitInv'
  <1>1. Compiling' /\ Windows'
    BY CodeKept
  <1>2. /\ program' = program /\ program \in Programs /\ program.n \in Nat
        /\ initial_insn_count' = initial_insn_count /\ initial_insn_count \in Budgets
        /\ initial_insn_count \in Nat /\ remaining <= initial_insn_count
        /\ remaining \in Nat /\ leftover' \in Nat
    BY ProgramFacts DEF JitInv, Types, Metered, Code
  <1>3. call_depth' \in Nat
    BY <1>2 DEF Counted
  <1>4. /\ to + l \in Nat /\ to + l <= to + rest /\ rest <= initial_insn_count
        /\ (to + l)..(to - 1) = {}
    BY <1>2
  <1>5. Types' /\ Metered'
    BY <1>2, <1>3, <1>4 DEF Types, Metered
  <1>6. Balanced' /\ Straight'
    BY <1>4 DEF Balanced, Straight
  <1>7. QED
    BY <1>1, <1>5, <1>6 DEF JitInv

(* It goes on past the budget.                                             *)
LEMMA GoesPast ==
    ASSUME JitConfig, JitInv, phase = "running", phase' = "running", UNCHANGED Code,
           meter <= pc, pc < program.n, Plain(pc), pc' = pc + 1, meter' = meter,
           UNCHANGED <<callVars, meterVars>>,
           mem' \in Words, reg' \in [Registers -> Words]
    PROVE  JitInv'
  <1>1. Compiling' /\ Windows'
    BY CodeKept
  <1>2. /\ program' = program /\ checkpoints' = checkpoints
        /\ program \in Programs /\ program.n \in Nat
        /\ pc \in Nat /\ meter \in Nat
    BY ProgramFacts, SMTT(60) DEF JitInv, Types, Code, compilerVars
  <1>3. Types' /\ Metered'
    BY <1>2 DEF JitInv, Types, Metered, Code, callVars, meterVars
  <1>4. CallSites' /\ Balanced'
    BY <1>2 DEF JitInv, CallSites, Balanced, Counted, Code, callVars
  <1>5. ASSUME NEW q \in meter..pc PROVE Plain(q)
    <2>1. q = pc \/ q \in meter..pc-1
      BY <1>2
    <2>2. QED
      BY <2>1 DEF JitInv, Straight
  <1>6. Straight'
    BY <1>2, <1>5 DEF Straight, Plain
  <1>7. QED
    BY <1>1, <1>3, <1>4, <1>6 DEF JitInv

(* It returns to execute_program.                                          *)
LEMMA Stops ==
    ASSUME JitConfig, JitInv, phase = "running", phase' = "stopped", UNCHANGED Code,
           UNCHANGED <<pc, meter>>, remaining' \in Nat,
           previous_instruction_meter' \in Nat, due_insn_count' \in Nat,
           mem' \in Words, reg' \in [Registers -> Words], call_depth' \in Nat,
           host_stack' \in Seq(HostFrames), CallSites'
    PROVE  JitInv'
  <1>1. Compiling' /\ Windows'
    BY CodeKept
  <1>2. Types' /\ Metered'
    BY DEF JitInv, Types, Metered, Code
  <1>3. Balanced' /\ Straight'
    BY DEF Balanced, Straight
  <1>4. QED
    BY <1>1, <1>2, <1>3 DEF JitInv

-----------------------------------------------------------------------------
(* The meter.                                                              *)

(* No value the code computes in the meter wraps.                          *)
LEMMA Unwrapped ==
    ASSUME JitConfig, NEW x \in Nat, x < MeterWord
    PROVE  Wrap(x) = x
  BY DEF JitConfig, Wrap

(* What a running program has left fits the meter, with any pc.            *)
LEMMA MeterFits ==
    ASSUME JitConfig, JitInv, phase = "running"
    PROVE  /\ pc \in Nat /\ meter \in Nat /\ remaining \in Nat /\ program.n \in Nat \ {0}
           /\ pc <= program.n /\ meter <= pc + remaining
           /\ remaining = previous_instruction_meter
           /\ remaining + program.n < MeterWord /\ MeterWord \in Nat
  BY ProgramFacts, SMTT(60) DEF JitInv, Types, Metered

(* ANCHOR_THROW_EXCEEDED_MAX_INSTRUCTIONS leaves nothing of the budget.    *)
LEMMA Exceeding ==
    ASSUME JitConfig, JitInv, phase = "running", NEW m \in Nat, ThrowExceeded(m),
           NEW rest \in Nat, rest <= remaining, remaining' = rest,
           previous_instruction_meter' = rest
    PROVE  /\ program_result' = Err("ExceededMaxInstructions") /\ registers11' = m
           /\ phase' = "stopped" /\ due_insn_count' \in Nat
           /\ SaturatingSub(remaining', due_insn_count') = 0
  <1>1. due_insn_count' = Wrap(rest - (m - 1 - m))
    BY DEF ThrowExceeded, Epilogue
  <1>2. rest - (m - 1 - m) = rest + 1
    OBVIOUS
  <1>3. rest + 1 \in Nat /\ rest + 1 < MeterWord
    BY MeterFits
  <1>4. due_insn_count' = rest + 1
    BY <1>1, <1>2, <1>3, Unwrapped
  <1>5. SaturatingSub(rest, rest + 1) = 0
    BY DEF SaturatingSub
  <1>6. QED
    BY <1>3, <1>4, <1>5 DEF ThrowExceeded, Epilogue

(* An epilogue that returns with l units left.                             *)
LEMMA Returning ==
    ASSUME JitConfig, JitInv, phase = "running", NEW m, NEW at, NEW l \in Nat,
           m - 1 - at = l, Epilogue(m, at),
           NEW rest \in Nat, rest <= remaining, l <= rest, remaining' = rest,
           previous_instruction_meter' = rest
    PROVE  /\ phase' = "stopped" /\ due_insn_count' \in Nat
           /\ SaturatingSub(remaining', due_insn_count') = l
  <1>1. due_insn_count' = Wrap(rest - l)
    BY DEF Epilogue
  <1>2. rest - l \in Nat /\ rest - l < MeterWord
    BY MeterFits
  <1>3. due_insn_count' = rest - l
    BY <1>1, <1>2, Unwrapped
  <1>4. SaturatingSub(rest, rest - l) = l
    BY DEF SaturatingSub
  <1>5. QED
    BY <1>2, <1>3, <1>4 DEF Epilogue

(* ANCHOR_THROW_EXCEPTION within the budget.                               *)
LEMMA Throwing ==
    ASSUME JitConfig, JitInv, phase = "running", NEW e, NEW m, NEW l \in Nat,
           m = pc + 1 + l, ThrowException(e, m, pc),
           NEW rest \in Nat, rest <= remaining, l <= rest, remaining' = rest,
           previous_instruction_meter' = rest
    PROVE  /\ program_result' = Err(e) /\ registers11' = pc
           /\ phase' = "stopped" /\ due_insn_count' \in Nat
           /\ SaturatingSub(remaining', due_insn_count') = l
  <1>1. pc \in Nat /\ m \in Nat /\ ~(m <= pc) /\ m - 1 - pc = l
    BY MeterFits
  <1>2. program_result' = Err(e) /\ registers11' = pc /\ Epilogue(m, pc)
    BY <1>1 DEF ThrowException
  <1>3. QED
    BY <1>1, <1>2, Returning

-----------------------------------------------------------------------------
(* What the abstract machine takes from Sbpf is what the compiler does.    *)

LEMMA SameValues ==
    /\ Machine!Words = Words /\ Machine!Registers = Registers
    /\ Machine!R0 = R0 /\ Machine!R1 = R1 /\ Machine!R6 = R6 /\ Machine!FP = FP
    /\ \A v : Machine!Ok(v) = Ok(v)
    /\ \A e : Machine!Err(e) = Err(e)
  BY DEF Words, Registers, R0, R1, R6, FP, Ok, Err,
         Machine!Words, Machine!Registers, Machine!R0, Machine!R1, Machine!R6,
         Machine!FP, Machine!Ok, Machine!Err

(* The features of a version and what a call adds to the frame pointer.    *)
LEMMA SameFrames ==
    ASSUME NEW v
    PROVE  /\ Machine!FrameBump(v) = FrameBump(v)
           /\ Machine!InitialFramePointer(v) = InitialFramePointer(v)
           /\ Machine!DisableLddw(v) <=> DisableLddw(v)
  BY DEF FrameBump, InitialFramePointer, DisableLddw, ManualStackFrameBump,
         HasStackFrameGaps, SaturatingAdd,
         Machine!FrameBump, Machine!InitialFramePointer, Machine!DisableLddw,
         Machine!ManualStackFrameBump, Machine!HasStackFrameGaps, Machine!SaturatingAdd

LEMMA SameSum ==
    ASSUME NEW a, NEW b
    PROVE  Machine!WrappingAdd(a, b) = WrappingAdd(a, b)
  BY DEF WrappingAdd, Machine!WrappingAdd

LEMMA SamePrograms ==
    ASSUME NEW p
    PROVE  /\ IsProgram(p) => Machine!IsProgram(p)
           /\ \A at : Machine!IsPcInProgram(p, at) <=> IsPcInProgram(p, at)
  BY DEF IsProgram, IsInsn, RegisterFields, Opcodes, Versions, IsPcInProgram,
         Registers, R0, R1, R6, FP,
         Machine!IsProgram, Machine!IsInsn, Machine!RegisterFields, Machine!Opcodes,
         Machine!Versions, Machine!IsPcInProgram, Machine!Registers, Machine!R0,
         Machine!R1, Machine!R6, Machine!FP

(* Which group an instruction belongs to.                                  *)
LEMMA SameGroups ==
    ASSUME NEW p, NEW i
    PROVE  /\ Machine!IsDataOp(p, i) <=> IsDataOp(p, i)
           /\ Machine!IsUnsupported(p, i) <=> IsUnsupported(p, i)
  BY DEF IsDataOp, IsUnsupported, DataOps, ArithOps, EnablePqr, DisableLddw,
         Machine!IsDataOp, Machine!IsUnsupported, Machine!DataOps, Machine!ArithOps,
         Machine!EnablePqr, Machine!DisableLddw

(* What an instruction computes, and where it goes.                        *)
LEMMA SameEffect ==
    ASSUME NEW i, NEW r, NEW m
    PROVE  /\ Machine!Fault(i, r) = Fault(i, r)
           /\ Machine!RegistersAfter(i, r, m) = RegistersAfter(i, r, m)
           /\ Machine!MemoryAfter(i, r, m) = MemoryAfter(i, r, m)
  <1>1. Machine!Fault(i, r) = Fault(i, r)
    BY DEF Fault, WrappingAdd, Machine!Fault, Machine!WrappingAdd
  <1>2. Machine!RegistersAfter(i, r, m) = RegistersAfter(i, r, m)
    BY DEF RegistersAfter, ArithOps, Quotient, Signed,
           Machine!RegistersAfter, Machine!ArithOps, Machine!Quotient, Machine!Signed
  <1>3. QED
    BY <1>1, <1>2 DEF MemoryAfter, Machine!MemoryAfter

LEMMA SameJumps ==
    ASSUME NEW i, NEW r, NEW at
    PROVE  /\ Machine!BranchTaken(i, r) <=> BranchTaken(i, r)
           /\ Machine!JumpTarget(at, i) = JumpTarget(at, i)
  BY DEF BranchTaken, JumpTarget, Machine!BranchTaken, Machine!JumpTarget

LEMMA SameCalls ==
    ASSUME NEW p, NEW i, NEW at
    PROVE  /\ Machine!CallxRegister(p, i) = CallxRegister(p, i)
           /\ \A a : Machine!CallxTarget(a) = CallxTarget(a)
           /\ Machine!ResolvesToSyscall(p, i) <=> ResolvesToSyscall(p, i)
           /\ Machine!ResolvesToFunction(p, at, i) <=> ResolvesToFunction(p, at, i)
           /\ Machine!CallTarget(p, at, i) = CallTarget(p, at, i)
  BY DEF CallxRegister, CallxTarget, ResolvesToSyscall, ResolvesToFunction, CallTarget,
         CallxUsesSrcReg, CallxUsesDstReg, StaticSyscalls, WrappingSub,
         Machine!CallxRegister, Machine!CallxTarget, Machine!ResolvesToSyscall,
         Machine!ResolvesToFunction, Machine!CallTarget, Machine!CallxUsesSrcReg,
         Machine!CallxUsesDstReg, Machine!StaticSyscalls, Machine!WrappingSub

-----------------------------------------------------------------------------
(* What the abstract machine sees.                                         *)

(* The frames of the active calls.                                         *)
Stack == [i \in 1..Len(host_stack) |->
            [r6 |-> host_stack[i].r6, fp |-> host_stack[i].fp,
             target_pc |-> host_stack[i].call_pc + 1]]

(* A program that can pay for its next instruction.                        *)
LEMMA Shown ==
    ASSUME JitConfig, JitInv, phase = "running", pc < meter
    PROVE  /\ Left = meter - pc /\ Left \in Nat /\ Left > 0
           /\ ShownPc = pc
           /\ Observable(reg) = reg /\ Observable(Stack) = Stack
           /\ (IF phase = "running" /\ Left = 0 THEN Dead ELSE mem) = mem
  <1>1. pc \in Nat /\ meter \in Nat /\ ~(meter <= pc) /\ ~(meter < pc)
    BY MeterFits
  <1>2. Left = meter - pc
    BY <1>1 DEF Left, SaturatingSub
  <1>3. Left \in Nat /\ Left > 0
    BY <1>1, <1>2
  <1>4. QED
    BY <1>1, <1>2, <1>3 DEF Observable, ShownPc

(* A program that has used up its budget.                                  *)
LEMMA Spent ==
    ASSUME JitConfig, JitInv, phase = "running", meter <= pc
    PROVE  /\ Left = 0
           /\ ShownPc = meter
  <1>1. pc \in Nat /\ meter \in Nat
    BY MeterFits
  <1>2. Left = 0
    BY <1>1 DEF Left, SaturatingSub
  <1>3. QED
    BY <1>1, <1>2 DEF ShownPc

LEMMA ContinueImplements ==
    ASSUME phase = "running", phase' = "running", Left > 0,
           program' = program, result' = result, registers11' = registers11,
           NEW to \in Nat, NEW l \in Nat, pc' = to, meter' = to + l
    PROVE  Machine!Continue(to, reg', mem', Stack', l)
  <1>1. Left' = l
    <2>1. SaturatingSub(to + l, to) = l
      BY DEF SaturatingSub
    <2>2. QED
      BY <2>1 DEF Left
  <1>2. ShownPc' = to
    BY DEF ShownPc
  <1>3. QED
    BY <1>1, <1>2 DEF Machine!Continue, Machine!Visible, Observable, Stack

LEMMA HaltImplements ==
    ASSUME phase = "running", phase' = "stopped", program' = program,
           IF Left = 0 THEN mem' \in Words ELSE mem' = mem,
           NEW l, SaturatingSub(remaining', due_insn_count') = l
    PROVE  Machine!Halt(program_result', registers11', l)
  <1>1. Left' = l
    BY DEF Left
  <1>2. ShownPc' = program.entry
    BY DEF ShownPc
  <1>3. QED
    BY <1>1, <1>2, SameValues DEF Machine!Halt, Observable

LEMMA InitImplements == JitConfig /\ Init => Machine!Init
  <1> SUFFICES ASSUME JitConfig, Init PROVE Machine!Init
    OBVIOUS
  <1>1. IsProgram(program) /\ mem \in Words
    BY ProgramFacts, InitialWords DEF Init, New
  <1>2. ShownPc = program.entry
    BY DEF Init, New, ShownPc
  <1>3. QED
    BY <1>1, <1>2, SameValues, SamePrograms DEF Init, New, Machine!Init, Left, Observable

-----------------------------------------------------------------------------
(* Steps that several instructions take.                                   *)

(* The instruction a step executes.                                        *)
LEMMA Fetched ==
    ASSUME JitConfig, JitInv, Fetch
    PROVE  /\ phase = "running" /\ UNCHANGED Code
           /\ pc \in 0..program.n-1 /\ program.n \in Nat
           /\ IsProgram(program) /\ Accepts(program)
           /\ meter <= pc => pc \notin checkpoints /\ ~ValidatesMeter(program, pc)
  <1>1. /\ phase = "running" /\ pc < program.n
        /\ pc \in checkpoints \/ ValidatesMeter(program, pc) => meter > pc
    BY DEF Fetch
  <1>2. /\ pc \in 0..program.n /\ program.n \in Nat /\ meter \in Nat
        /\ IsProgram(program) /\ Accepts(program)
    BY ProgramFacts DEF JitInv, Types
  <1>3. UNCHANGED Code
    BY DEF Fetch, Code, returnVars
  <1>4. QED
    BY <1>1, <1>2, <1>3

(* An instruction that could not be paid for ends the execution.           *)
LEMMA ExceedStep ==
    ASSUME JitConfig, JitInv, phase = "running", meter <= pc, ThrowExceeded(meter),
           KeepsMeter, UNCHANGED Code, UNCHANGED <<callVars, mem, pc, meter, reg>>
    PROVE  JitInv' /\ Machine!Exceed
  <1>1. /\ remaining \in Nat /\ meter \in Nat /\ remaining <= remaining
        /\ remaining' = remaining /\ previous_instruction_meter' = remaining
    BY MeterFits DEF KeepsMeter
  <1>2. /\ program_result' = Err("ExceededMaxInstructions") /\ registers11' = meter
        /\ phase' = "stopped" /\ due_insn_count' \in Nat
        /\ SaturatingSub(remaining', due_insn_count') = 0
    BY <1>1, Exceeding
  <1>3. JitInv'
    <2>1. /\ mem' \in Words /\ reg' \in [Registers -> Words] /\ call_depth' \in Nat
          /\ host_stack' \in Seq(HostFrames) /\ CallSites'
      BY DEF JitInv, Types, CallSites, callVars, Code
    <2>2. QED
      BY <1>1, <1>2, <2>1, Stops
  <1>4. Left = 0 /\ ShownPc = meter
    BY Spent
  <1>5. Machine!Halt(program_result', registers11', 0)
    BY <1>2, <1>4, HaltImplements DEF Code, JitInv, Types
  <1>6. Machine!Halt(Err("ExceededMaxInstructions"), meter, 0)
    BY <1>2, <1>5
  <1>7. Machine!Exceed
    BY <1>4, <1>6, SameValues DEF Machine!Exceed
  <1>8. QED
    BY <1>3, <1>7

(* An exception within the budget.                                         *)
LEMMA ThrowStep ==
    ASSUME JitConfig, JitInv, phase = "running", pc < meter,
           NEW e, ThrowException(e, meter, pc),
           KeepsMeter, UNCHANGED Code, UNCHANGED <<callVars, mem, pc, meter, reg>>
    PROVE  JitInv' /\ Machine!Halt(Err(e), pc, Left - 1)
  <1> DEFINE l == meter - pc - 1
  <1>1. /\ remaining \in Nat /\ l \in Nat /\ l <= remaining /\ meter = pc + 1 + l
        /\ remaining' = remaining /\ previous_instruction_meter' = remaining
        /\ remaining <= remaining
    BY MeterFits DEF KeepsMeter
  <1> HIDE DEF l
  <1>2. /\ program_result' = Err(e) /\ registers11' = pc
        /\ phase' = "stopped" /\ due_insn_count' \in Nat
        /\ SaturatingSub(remaining', due_insn_count') = l
    BY <1>1, Throwing
  <1>3. JitInv'
    <2>1. /\ mem' \in Words /\ reg' \in [Registers -> Words] /\ call_depth' \in Nat
          /\ host_stack' \in Seq(HostFrames) /\ CallSites'
      BY DEF JitInv, Types, CallSites, callVars, Code
    <2>2. QED
      BY <1>1, <1>2, <2>1, Stops
  <1>4. Left = meter - pc /\ Left > 0 /\ Left \in Nat
    BY Shown
  <1>5. Machine!Halt(program_result', registers11', l)
    BY <1>2, <1>4, HaltImplements DEF Code
  <1>6. l = Left - 1
    BY <1>4 DEF l
  <1>7. QED
    BY <1>2, <1>3, <1>5, <1>6

(* Only code that runs past its budget keeps the abstract machine waiting. *)
Waits == UNCHANGED Machine!vars /\ (phase = "running" => Left = 0 /\ phase' = "running")

(* An instruction that stays in straight-line code, within the budget or   *)
(* past it.                                                                *)
LEMMA DataGoes ==
    ASSUME JitConfig, JitInv, Fetch, KeepsMeter, GoOn(pc + 1, meter),
           IsDataOp(program, insn), Fault(insn, reg) = "none",
           reg' = RegistersAfter(insn, reg, mem), mem' = MemoryAfter(insn, reg, mem),
           UNCHANGED callVars
    PROVE  JitInv' /\ (Machine!Data \/ Waits)
  <1>1. /\ phase = "running" /\ UNCHANGED Code
        /\ pc \in 0..program.n-1 /\ program.n \in Nat
        /\ IsProgram(program) /\ Accepts(program)
        /\ meter <= pc => pc \notin checkpoints /\ ~ValidatesMeter(program, pc)
    BY Fetched
  <1>2. reg' \in [Registers -> Words] /\ mem' \in Words
    BY <1>1, DataEffect DEF JitInv, Types, insn
  <1>3. /\ pc' = pc + 1 /\ meter' = meter /\ phase' = "running"
        /\ due_insn_count' = due_insn_count /\ registers11' = registers11
        /\ remaining' = remaining
        /\ previous_instruction_meter' = previous_instruction_meter
    BY <1>1 DEF GoOn, KeepsMeter
  <1>4. /\ meter \in Nat /\ remaining \in Nat /\ meter <= pc + remaining
        /\ remaining = previous_instruction_meter
    BY <1>1, MeterFits
  <1>5. CASE meter <= pc
    <2>1. insn.op # "ZERO"
      BY DEF IsDataOp, DataOps, ArithOps
    <2>2. Plain(pc)
      BY <1>1, <1>5, <2>1 DEF Plain, insn
    <2>3. JitInv'
      BY <1>1, <1>2, <1>3, <1>5, <2>2, GoesPast DEF meterVars
    <2>4. Left = 0 /\ ShownPc = meter
      BY <1>1, <1>5, Spent
    <2>5. Left' = 0 /\ ShownPc' = meter
      <3>1. meter <= pc + 1 /\ SaturatingSub(meter, pc + 1) = 0
        BY <1>1, <1>4, <1>5 DEF SaturatingSub
      <3>2. QED
        BY <1>1, <1>3, <3>1 DEF Left, ShownPc
    <2>6. UNCHANGED Machine!vars
      BY <1>1, <1>3, <2>4, <2>5 DEF Machine!vars, Observable, Code
    <2>7. QED
      BY <1>3, <2>3, <2>4, <2>6 DEF Waits
  <1>6. CASE pc < meter
    <2> DEFINE l == meter - (pc + 1)
               to == pc + 1
    <2>1. /\ l \in Nat /\ to \in 0..program.n /\ to \in Nat
          /\ l <= remaining /\ meter = to + l /\ remaining <= remaining
      BY <1>1, <1>4, <1>6
    <2>2. /\ pc' = to /\ meter' = to + l
      BY <1>3, <2>1
    <2>3. /\ host_stack' \in Seq(HostFrames) /\ Counted' /\ CallSites'
          /\ due_insn_count' \in Nat
      BY <1>1, <1>3 DEF JitInv, Types, Balanced, Counted, CallSites, callVars, Code
    <2> HIDE DEF l, to
    <2>4. JitInv'
      BY <1>1, <1>2, <1>3, <1>4, <2>1, <2>2, <2>3, GoesOn
    <2>5. /\ Left = meter - pc /\ Left > 0 /\ ShownPc = pc /\ Observable(reg) = reg
          /\ Observable(Stack) = Stack
          /\ (IF phase = "running" /\ Left = 0 THEN Dead ELSE mem) = mem
      BY <1>1, <1>6, Shown
    <2>6. Machine!Continue(to, reg', mem', Stack', l)
      BY <1>1, <1>3, <2>1, <2>2, <2>5, ContinueImplements DEF Code
    <2>7. l = Left - 1 /\ to = pc + 1 /\ Stack' = Stack
      BY <1>1, <1>4, <2>5, SMTT(60) DEF l, to, Stack, callVars
    <2>8. Machine!Continue(pc + 1, RegistersAfter(insn, reg, mem),
                           MemoryAfter(insn, reg, mem), Stack, Left - 1)
      BY <2>6, <2>7
    <2>9. /\ Machine!IsDataOp(program, insn) /\ Machine!Fault(insn, reg) = "none"
          /\ Machine!RegistersAfter(insn, reg, mem) = RegistersAfter(insn, reg, mem)
          /\ Machine!MemoryAfter(insn, reg, mem) = MemoryAfter(insn, reg, mem)
          /\ pc < program.n
      BY <1>1, SameGroups, SameEffect
    <2>10. Machine!Data
      BY <1>1, <2>5, <2>8, <2>9 DEF Machine!Data, insn, Stack
    <2>11. QED
      BY <2>4, <2>10
  <1>7. QED
    BY <1>1, <1>4, <1>5, <1>6

(* An instruction that faults, within the budget or past it.               *)
LEMMA DataFaults ==
    ASSUME JitConfig, JitInv, Fetch, KeepsMeter, IsDataOp(program, insn),
           Fault(insn, reg) # "none", ThrowException(Fault(insn, reg), meter, pc),
           UNCHANGED <<callVars, mem, reg, pc, meter>>
    PROVE  JitInv' /\ (Machine!Data \/ Machine!Exceed)
  <1>1. /\ phase = "running" /\ UNCHANGED Code /\ pc < program.n
        /\ pc \in Nat /\ meter \in Nat
    BY Fetched, MeterFits DEF Fetch
  <1>2. CASE meter <= pc
    BY <1>1, <1>2, ExceedStep DEF ThrowException
  <1>3. CASE pc < meter
    <2>1. JitInv' /\ Machine!Halt(Err(Fault(insn, reg)), pc, Left - 1)
      BY <1>1, <1>3, ThrowStep
    <2>2. /\ Left > 0 /\ ShownPc = pc /\ Observable(reg) = reg
      BY <1>1, <1>3, Shown
    <2>3. /\ Machine!IsDataOp(program, insn)
          /\ Machine!Fault(insn, reg) = Fault(insn, reg)
          /\ \A e : Machine!Err(e) = Err(e)
      BY SameGroups, SameEffect, SameValues
    <2>4. Machine!Data
      BY <1>1, <2>1, <2>2, <2>3 DEF Machine!Data, insn
    <2>5. QED
      BY <2>1, <2>4
  <1>4. QED
    BY <1>1, <1>2, <1>3

-----------------------------------------------------------------------------
(* One lemma per action of the emitted code.                               *)

(* A step keeps the invariant and, in an execution that began at depth 0,  *)
(* is a step of the abstract machine.                                      *)
Implements == JitInv' /\ (leftover' = 0 => Machine!Next \/ Waits)

LEMMA ExceededImplements == JitConfig /\ JitInv /\ RunExceeded => Implements
  <1> SUFFICES ASSUME JitConfig, JitInv, RunExceeded PROVE Implements
    OBVIOUS
  <1>1. /\ phase = "running" /\ meter <= pc /\ ThrowExceeded(meter) /\ KeepsMeter
        /\ UNCHANGED Code /\ UNCHANGED <<callVars, mem, pc, meter, reg>>
    BY DEF RunExceeded, Code, returnVars
  <1>2. QED
    BY <1>1, ExceedStep DEF Implements, Machine!Next

LEMMA BumperImplements == JitConfig /\ JitInv /\ RunBumper => Implements
  <1> SUFFICES ASSUME JitConfig, JitInv, RunBumper PROVE Implements
    OBVIOUS
  <1>1. /\ phase = "running" /\ pc >= program.n /\ KeepsMeter
        /\ UNCHANGED Code /\ UNCHANGED <<callVars, mem, pc, meter, reg>>
    BY DEF RunBumper, Code, returnVars
  <1>2. /\ pc \in Nat /\ meter \in Nat /\ remaining \in Nat /\ program.n \in Nat
        /\ pc <= program.n /\ meter <= pc + remaining
        /\ remaining + program.n < MeterWord /\ MeterWord \in Nat
    BY <1>1, MeterFits
  <1>3. CASE meter <= pc
    <2>1. ThrowExceeded(meter)
      BY <1>3 DEF RunBumper
    <2>2. QED
      BY <1>1, <1>3, <2>1, ExceedStep DEF Implements, Machine!Next
  <1>4. CASE pc < meter
    <2>1. Profile(meter, pc, pc + 1) = meter
      <3>1. meter + (pc + 1) - (pc + 1) = meter /\ meter < MeterWord
        BY <1>2
      <3>2. QED
        BY <1>2, <3>1, Unwrapped DEF Profile
    <2>2. ThrowException("ExecutionOverrun", meter, pc)
      BY <1>2, <1>4, <2>1 DEF RunBumper
    <2>3. JitInv' /\ Machine!Halt(Err("ExecutionOverrun"), pc, Left - 1)
      BY <1>1, <1>4, <2>2, ThrowStep
    <2>4. Left > 0 /\ ShownPc = pc
      BY <1>1, <1>4, Shown
    <2>5. Machine!Overrun
      BY <1>1, <2>3, <2>4, SameValues DEF Machine!Overrun
    <2>6. QED
      BY <2>3, <2>5 DEF Implements, Machine!Next
  <1>5. QED
    BY <1>2, <1>3, <1>4

LEMMA ArithmeticImplements == JitConfig /\ JitInv /\ RunArithmetic => Implements
  <1> SUFFICES ASSUME JitConfig, JitInv, RunArithmetic PROVE Implements
    OBVIOUS
  <1>1. Fetch /\ KeepsMeter /\ insn.op \in ArithOps
    BY DEF RunArithmetic
  <1>2. insn.op = "ENDIAN" => insn.imm \in {16, 32, 64}
    BY <1>1, Fetched, AcceptedOperands DEF insn
  <1>3. IsDataOp(program, insn) /\ Fault(insn, reg) = "none"
    BY <1>1, <1>2 DEF IsDataOp, DataOps, ArithOps, Fault
  <1>4. mem' = MemoryAfter(insn, reg, mem)
    BY <1>1 DEF RunArithmetic, MemoryAfter, ArithOps
  <1>5. QED
    BY <1>1, <1>3, <1>4, DataGoes DEF RunArithmetic, Implements, Machine!Next

LEMMA QuotientImplements == JitConfig /\ JitInv /\ RunQuotient => Implements
  <1> SUFFICES ASSUME JitConfig, JitInv, RunQuotient PROVE Implements
    OBVIOUS
  <1>1. CASE Fault(insn, reg) # "none"
    BY <1>1, DataFaults DEF RunQuotient, Implements, Machine!Next
  <1>2. CASE Fault(insn, reg) = "none"
    <2>1. mem' = MemoryAfter(insn, reg, mem)
      BY DEF RunQuotient, MemoryAfter
    <2>2. QED
      BY <1>2, <2>1, DataGoes DEF RunQuotient, Implements, Machine!Next
  <1>3. QED
    BY <1>1, <1>2

LEMMA LoadStoreImplements == JitConfig /\ JitInv /\ RunLoadStore => Implements
  <1> SUFFICES ASSUME JitConfig, JitInv, RunLoadStore PROVE Implements
    OBVIOUS
  <1>1. IsDataOp(program, insn)
    BY DEF RunLoadStore, IsDataOp, DataOps
  <1>2. CASE Fault(insn, reg) # "none"
    BY <1>1, <1>2, DataFaults
       DEF RunLoadStore, TranslateMemoryAddress, Implements, Machine!Next
  <1>3. CASE Fault(insn, reg) = "none"
    BY <1>1, <1>3, DataGoes
       DEF RunLoadStore, TranslateMemoryAddress, Implements, Machine!Next
  <1>4. QED
    BY <1>2, <1>3

LEMMA UnsupportedImplements == JitConfig /\ JitInv /\ RunUnsupported => Implements
  <1> SUFFICES ASSUME JitConfig, JitInv, RunUnsupported PROVE Implements
    OBVIOUS
  <1>1. /\ Fetch /\ KeepsMeter /\ IsUnsupported(program, insn)
        /\ ThrowException("UnsupportedInstruction", meter, pc)
        /\ UNCHANGED <<callVars, mem, pc, meter, reg>>
    BY DEF RunUnsupported
  <1>2. /\ phase = "running" /\ UNCHANGED Code /\ pc < program.n
        /\ pc \in Nat /\ meter \in Nat
    BY <1>1, Fetched, MeterFits DEF Fetch
  <1>3. CASE meter <= pc
    BY <1>1, <1>2, <1>3, ExceedStep DEF ThrowException, Implements, Machine!Next
  <1>4. CASE pc < meter
    <2>1. JitInv' /\ Machine!Halt(Err("UnsupportedInstruction"), pc, Left - 1)
      BY <1>1, <1>2, <1>4, ThrowStep
    <2>2. Left > 0 /\ ShownPc = pc
      BY <1>2, <1>4, Shown
    <2>3. Machine!IsUnsupported(program, insn) /\ \A e : Machine!Err(e) = Err(e)
      BY <1>1, SameGroups, SameValues
    <2>4. Machine!Unsupported
      BY <1>2, <2>1, <2>2, <2>3 DEF Machine!Unsupported, insn
    <2>5. QED
      BY <2>1, <2>4 DEF Implements, Machine!Next
  <1>5. QED
    BY <1>2, <1>3, <1>4

(* A step within the budget that goes on somewhere else.                   *)
LEMMA Transfers ==
    ASSUME JitConfig, JitInv, phase = "running", phase' = "running", pc < meter,
           NEW to \in 0..program.n, pc' = to, meter' = to + (meter - pc - 1),
           KeepsMeter, UNCHANGED Code,
           UNCHANGED <<callVars, mem, due_insn_count, registers11>>,
           reg' \in [Registers -> Words]
    PROVE  JitInv' /\ Machine!Continue(to, reg', mem, Stack, Left - 1)
  <1> DEFINE l == meter - pc - 1
  <1>1. /\ l \in Nat /\ l <= remaining /\ remaining \in Nat /\ remaining <= remaining
        /\ remaining' = remaining /\ previous_instruction_meter' = remaining
        /\ to \in Nat
    BY MeterFits, SMTT(60) DEF KeepsMeter
  <1>2. /\ host_stack' \in Seq(HostFrames) /\ Counted' /\ CallSites'
        /\ due_insn_count' \in Nat /\ mem' \in Words
    BY DEF JitInv, Types, Balanced, Counted, CallSites, callVars, Code
  <1>3. Left = meter - pc /\ Left > 0
    BY Shown
  <1>4. l = Left - 1 /\ meter' = to + l
    BY <1>3, MeterFits
  <1> HIDE DEF l
  <1>5. JitInv'
    BY <1>1, <1>2, <1>4, GoesOn
  <1>6. Machine!Continue(to, reg', mem', Stack', l)
    BY <1>1, <1>3, <1>4, ContinueImplements DEF Code
  <1>7. mem' = mem /\ Stack' = Stack
    BY DEF Stack, callVars
  <1>8. Machine!Continue(to, reg', mem, Stack, Left - 1)
    BY <1>4, <1>6, <1>7
  <1>9. QED
    BY <1>5, <1>8

LEMMA LoadDoubleWordImplements == JitConfig /\ JitInv /\ RunLoadDoubleWord => Implements
  <1> SUFFICES ASSUME JitConfig, JitInv, RunLoadDoubleWord PROVE Implements
    OBVIOUS
  <1> DEFINE loaded == [reg EXCEPT ![insn.dst] = Arith(insn.op, @, insn.imm)]
  <1>1. /\ Fetch /\ KeepsMeter /\ insn.op = "LD_DW_IMM" /\ reg' = loaded
        /\ GoOn(pc + 2, Profile(meter, pc, pc + 2))
        /\ UNCHANGED <<callVars, mem>>
    BY DEF RunLoadDoubleWord
  <1>2. /\ phase = "running" /\ UNCHANGED Code
        /\ pc \in 0..program.n-1 /\ program.n \in Nat
        /\ IsProgram(program) /\ Accepts(program)
        /\ meter <= pc => ~ValidatesMeter(program, pc)
    BY <1>1, Fetched
  <1>3. ~DisableLddw(program.version) /\ pc + 2 <= program.n
    BY <1>1, <1>2, AcceptedLoadEnabled, AcceptedLoadDoubleWord DEF insn
  <1>4. meter \in Nat /\ pc < meter
    BY <1>1, <1>2, MeterFits DEF ValidatesMeter, insn
  <1>5. Profile(meter, pc, pc + 2) = (pc + 2) + (meter - pc - 1)
    <2>1. /\ meter + (pc + 2) - (pc + 1) = meter + 1 /\ meter + 1 \in Nat
          /\ meter + 1 < MeterWord /\ (pc + 2) + (meter - pc - 1) = meter + 1
      BY <1>2, <1>3, <1>4, MeterFits
    <2>2. QED
      BY <2>1, Unwrapped DEF Profile
  <1>6. reg' \in [Registers -> Words]
    <2>1. insn.dst \in Registers /\ insn.imm \in Immediates
      BY <1>1, <1>2, AcceptedRegisters, AcceptedInsn DEF insn, IsInsn
    <2>2. reg \in [Registers -> Words] /\ reg[insn.dst] \in Words
      BY <2>1 DEF JitInv, Types
    <2>3. Arith(insn.op, reg[insn.dst], insn.imm) \in Words
      BY <1>1, <2>1, <2>2, ArithAssumption DEF Words
    <2>4. QED
      BY <1>1, <2>1, <2>2, <2>3
  <1>7. /\ pc' = pc + 2 /\ meter' = (pc + 2) + (meter - pc - 1) /\ phase' = "running"
        /\ UNCHANGED <<due_insn_count, registers11>> /\ pc + 2 \in 0..program.n
    BY <1>1, <1>2, <1>3, <1>5 DEF GoOn
  <1>8. JitInv' /\ Machine!Continue(pc + 2, reg', mem, Stack, Left - 1)
    BY <1>1, <1>2, <1>4, <1>6, <1>7, Transfers
  <1>9. /\ Left > 0 /\ ShownPc = pc /\ Observable(reg) = reg
        /\ Observable(Stack) = Stack
        /\ (IF phase = "running" /\ Left = 0 THEN Dead ELSE mem) = mem
    BY <1>2, <1>4, Shown
  <1>10. ~Machine!DisableLddw(program.version)
    BY <1>3, SameFrames
  <1>11. [Observable(reg) EXCEPT ![program.text[ShownPc].dst] =
            Arith(program.text[ShownPc].op, @, program.text[ShownPc].imm)] = loaded
    BY <1>9 DEF insn
  <1> HIDE DEF loaded
  <1>12. Machine!Continue(ShownPc + 2, loaded, mem, Stack, Left - 1)
    BY <1>1, <1>8, <1>9
  <1>13. Machine!At("LD_DW_IMM")
    BY <1>1, <1>2, <1>9 DEF Machine!At, insn
  <1>14. Machine!LoadDoubleWord
    BY <1>9, <1>10, <1>11, <1>12, <1>13 DEF Machine!LoadDoubleWord, Stack
  <1>15. QED
    BY <1>8, <1>14 DEF Implements, Machine!Next

LEMMA JumpImplements == JitConfig /\ JitInv /\ RunJump => Implements
  <1> SUFFICES ASSUME JitConfig, JitInv, RunJump PROVE Implements
    OBVIOUS
  <1> DEFINE target == JumpTarget(pc, insn)
             to == IF BranchTaken(insn, reg) THEN target ELSE pc + 1
             m == Profile(meter, pc, target)
  <1>1. /\ Fetch /\ KeepsMeter /\ insn.op \in {"JA", "JEQ"}
        /\ IF BranchTaken(insn, reg) THEN GoOn(target, m)
           ELSE GoOn(pc + 1, UndoProfile(m, pc, target))
        /\ UNCHANGED <<callVars, mem, reg>>
    BY DEF RunJump
  <1>2. /\ phase = "running" /\ UNCHANGED Code
        /\ pc \in 0..program.n-1 /\ program.n \in Nat
        /\ IsProgram(program) /\ Accepts(program)
        /\ meter <= pc => ~ValidatesMeter(program, pc)
    BY <1>1, Fetched
  <1>3. target \in 0..program.n-1
    BY <1>1, <1>2, AcceptedJump DEF insn
  <1>4. meter \in Nat /\ pc < meter
    <2>1. ValidatesMeter(program, pc)
      BY <1>1 DEF ValidatesMeter, insn
    <2>2. meter \in Nat /\ pc \in Nat
      BY <1>2, MeterFits
    <2>3. QED
      BY <1>2, <2>1, <2>2
  <1> HIDE DEF target
  <1>5. m = target + (meter - pc - 1)
    <2>1. /\ meter + target - (pc + 1) = target + (meter - pc - 1)
          /\ target + (meter - pc - 1) \in Nat
          /\ target + (meter - pc - 1) < MeterWord
      BY <1>2, <1>3, <1>4, MeterFits
    <2>2. QED
      BY <2>1, Unwrapped DEF Profile
  <1>6. UndoProfile(m, pc, target) = (pc + 1) + (meter - pc - 1)
    <2>1. /\ m + (pc + 1) - target = meter /\ meter < MeterWord
          /\ (pc + 1) + (meter - pc - 1) = meter
      BY <1>2, <1>3, <1>4, <1>5, MeterFits
    <2>2. QED
      BY <1>4, <2>1, Unwrapped DEF UndoProfile
  <1> HIDE DEF m
  <1>7. /\ pc' = to /\ meter' = to + (meter - pc - 1) /\ phase' = "running"
        /\ UNCHANGED <<due_insn_count, registers11>> /\ to \in 0..program.n
        /\ reg' \in [Registers -> Words]
    BY <1>1, <1>2, <1>3, <1>5, <1>6, SMTT(60) DEF GoOn, JitInv, Types
  <1> HIDE DEF to
  <1>8. JitInv' /\ Machine!Continue(to, reg', mem, Stack, Left - 1)
    BY <1>1, <1>2, <1>4, <1>7, Transfers
  <1>9. /\ Left > 0 /\ ShownPc = pc /\ Observable(reg) = reg
        /\ Observable(Stack) = Stack
        /\ (IF phase = "running" /\ Left = 0 THEN Dead ELSE mem) = mem
    BY <1>2, <1>4, Shown
  <1>10. Machine!Continue(to, reg, mem, Stack, Left - 1)
    BY <1>1, <1>8
  <1>11. (IF Machine!BranchTaken(insn, reg) THEN Machine!JumpTarget(pc, insn)
          ELSE pc + 1) = to
    BY SameJumps DEF to, target
  <1>12. Machine!At("JA") \/ Machine!At("JEQ")
    BY <1>1, <1>2, <1>9 DEF Machine!At, insn
  <1>13. Machine!Jump
    BY <1>9, <1>10, <1>11, <1>12 DEF Machine!Jump, Stack, insn
  <1>14. QED
    BY <1>8, <1>13 DEF Implements, Machine!Next

-----------------------------------------------------------------------------
(* A frame on the host stack.                                              *)
LEMMA StackPushed ==
    ASSUME JitConfig, JitInv, pc \in 0..program.n-1, UNCHANGED Code,
           program.text[pc].op \in {"CALL_REG", "CALL_IMM"},
           NEW a \in Words, NEW b \in Words,
           host_stack' = Append(host_stack, [call_pc |-> pc, r6 |-> a, fp |-> b])
    PROVE  /\ host_stack' \in Seq(HostFrames) /\ Len(host_stack') = Len(host_stack) + 1
           /\ CallSites'
           /\ Stack' = Append(Stack, [r6 |-> a, fp |-> b, target_pc |-> pc + 1])
  <1> DEFINE frame == [call_pc |-> pc, r6 |-> a, fp |-> b]
             pushed == Append(host_stack, frame)
  <1>1. program' = program /\ host_stack \in Seq(HostFrames) /\ program.n \in Nat
        /\ frame \in HostFrames
    BY ProgramFacts, SMTT(60) DEF JitInv, Types, Code, HostFrames
  <1>2. /\ pushed \in Seq(HostFrames) /\ Len(pushed) = Len(host_stack) + 1
        /\ \A i \in 1..Len(host_stack) : pushed[i] = host_stack[i]
        /\ pushed[Len(host_stack) + 1] = frame
    <2> HIDE DEF frame
    <2>1. QED
      BY <1>1
  <1>3. frame.call_pc = pc /\ frame.r6 = a /\ frame.fp = b
    OBVIOUS
  <1> HIDE DEF frame, pushed
  <1>4. host_stack' = pushed
    BY DEF frame, pushed
  <1>5. CallSites'
    <2>1. ASSUME NEW i \in 1..Len(pushed)
          PROVE  /\ pushed[i].call_pc < program.n
                 /\ program.text[pushed[i].call_pc].op \in {"CALL_REG", "CALL_IMM"}
      <3>1. CASE i = Len(host_stack) + 1
        BY <1>1, <1>2, <1>3, <3>1
      <3>2. CASE i # Len(host_stack) + 1
        <4>1. i \in 1..Len(host_stack)
          BY <1>1, <1>2, <2>1, <3>2
        <4>2. QED
          BY <1>2, <4>1 DEF JitInv, CallSites
      <3>3. QED
        BY <3>1, <3>2
    <2>2. QED
      BY <1>1, <1>4, <2>1 DEF CallSites
  <1>6. Stack' = Append(Stack, [r6 |-> a, fp |-> b, target_pc |-> pc + 1])
    <2> DEFINE View(h) == [r6 |-> h.r6, fp |-> h.fp, target_pc |-> h.call_pc + 1]
    <2>1. View(frame) = [r6 |-> a, fp |-> b, target_pc |-> pc + 1]
      BY <1>3
    <2>2. Stack = [i \in 1..Len(host_stack) |-> View(host_stack[i])]
      BY DEF Stack
    <2>3. Stack' = [i \in 1..Len(pushed) |-> View(pushed[i])]
      BY <1>4 DEF Stack
    <2> HIDE DEF View
    <2>4. Append(Stack, View(frame)) = [i \in 1..Len(pushed) |-> View(pushed[i])]
      BY <1>1, <1>2, <2>2, SMTT(60)
    <2>5. QED
      BY <2>1, <2>3, <2>4
  <1>7. QED
    BY <1>2, <1>4, <1>5, <1>6

(* ANCHOR_INTERNAL_FUNCTION_CALL_PROLOGUE within the budget.               *)
LEMMA CallStep ==
    ASSUME JitConfig, JitInv, phase = "running", pc \in 0..program.n-1, pc < meter,
           program.text[pc].op \in {"CALL_REG", "CALL_IMM"},
           NEW m, NEW r \in [Registers -> Words], NEW res, NEW due \in Nat,
           NEW target \in Nat, InternalCall(m, r, res, due, target),
           NEW l \in Nat, NEW rest \in Nat, l <= rest, rest <= remaining,
           m = pc + 1 + l, remaining' = rest, previous_instruction_meter' = rest,
           UNCHANGED Code, mem' = mem
    PROVE  JitInv' /\ (leftover' = 0 => Machine!Call(target, r, l))
  <1> DEFINE frame == [r6 |-> r[R6], fp |-> r[FP], target_pc |-> pc + 1]
             bumped == [r EXCEPT ![FP] = WrappingAdd(@, FrameBump(program.version))]
  <1>1. /\ program.n \in Nat /\ pc \in Nat /\ ~(m <= pc)
        /\ MaxCallDepth \in Nat /\ call_depth \in Nat /\ leftover \in Nat
        /\ Counted /\ leftover' = leftover /\ host_stack \in Seq(HostFrames)
        /\ r[R6] \in Words /\ r[FP] \in Words /\ mem' \in Words
    BY MeterFits, ConfigAssumption, SMTT(60)
       DEF JitInv, Types, Balanced, Registers, Code
  <1>2. /\ host_stack' = Append(host_stack, [call_pc |-> pc, r6 |-> r[R6], fp |-> r[FP]])
        /\ call_depth' = call_depth + 1
    BY <1>1 DEF InternalCall
  <1>3. /\ host_stack' \in Seq(HostFrames) /\ Len(host_stack') = Len(host_stack) + 1
        /\ CallSites' /\ Stack' = Append(Stack, frame)
    BY <1>1, <1>2, StackPushed
  <1>4. bumped \in [Registers -> Words]
    <2>1. WrappingAdd(r[FP], FrameBump(program.version)) \in Words
      BY <1>1, BumpedWord
    <2>2. QED
      BY <2>1 DEF Registers
  <1>5. call_depth' \in Nat /\ call_depth' = leftover' + Len(host_stack')
    BY <1>1, <1>2, <1>3, SMTT(60) DEF Counted
  <1>6. /\ Left > 0 /\ ShownPc = pc /\ Observable(Stack) = Stack
        /\ (IF phase = "running" /\ Left = 0 THEN Dead ELSE mem) = mem
    BY Shown
  <1>7. leftover = 0 => Len(Stack) = call_depth /\ call_depth < MaxCallDepth
    <2>1. Len(Stack) = Len(host_stack) /\ Len(host_stack) \in Nat
      BY <1>1 DEF Stack
    <2>2. QED
      BY <1>1, <2>1 DEF Counted
  <1>8. /\ [r EXCEPT ![Machine!FP] =
                Machine!WrappingAdd(@, Machine!FrameBump(program.version))] = bumped
        /\ Machine!Frame(r, pc + 1) = frame
        /\ \A at : Machine!IsPcInProgram(program, at) <=> IsPcInProgram(program, at)
        /\ \A e : Machine!Err(e) = Err(e)
    BY SameValues, SameFrames, SameSum, SamePrograms DEF Machine!Frame
  <1>9. IsPcInProgram(program, target) <=> target < program.n
    BY <1>1 DEF IsPcInProgram
  <1> HIDE DEF frame, bumped
  <1>10. ASSUME NEW e, ThrowException(e, m, pc), UNCHANGED <<pc, meter>>,
                reg' \in [Registers -> Words]
         PROVE  JitInv' /\ Machine!Halt(Err(e), pc, l)
    <2>1. /\ program_result' = Err(e) /\ registers11' = pc
          /\ phase' = "stopped" /\ due_insn_count' \in Nat
          /\ SaturatingSub(remaining', due_insn_count') = l
      BY <1>10, Throwing
    <2>2. JitInv'
      BY <1>1, <1>3, <1>5, <1>10, <2>1, Stops
    <2>3. Machine!Halt(program_result', registers11', l)
      BY <1>6, <2>1, HaltImplements, SMTT(60) DEF Code
    <2>4. QED
      BY <2>1, <2>2, <2>3
  <1>11. CASE call_depth + 1 >= MaxCallDepth
    <2>1. /\ ThrowException("CallDepthExceeded", m, pc) /\ UNCHANGED <<pc, meter>>
          /\ reg' = r
      BY <1>1, <1>11, SMTT(60) DEF InternalCall
    <2>2. JitInv' /\ Machine!Halt(Err("CallDepthExceeded"), pc, l)
      BY <1>10, <2>1
    <2>3. leftover = 0 => Len(Stack) + 1 = MaxCallDepth
      BY <1>1, <1>7, <1>11
    <2>4. QED
      BY <1>1, <1>6, <1>8, <2>2, <2>3 DEF Machine!Call, Stack
  <1>12. CASE ~(call_depth + 1 >= MaxCallDepth) /\ ~(target < program.n)
    <2>1. /\ ThrowException("CallOutsideTextSegment", m, pc) /\ UNCHANGED <<pc, meter>>
          /\ reg' = bumped
      BY <1>1, <1>12 DEF InternalCall, bumped
    <2>2. JitInv' /\ Machine!Halt(Err("CallOutsideTextSegment"), pc, l)
      BY <1>4, <1>10, <2>1
    <2>3. leftover = 0 => Len(Stack) + 1 # MaxCallDepth
      BY <1>1, <1>7, <1>12
    <2>4. QED
      BY <1>1, <1>6, <1>8, <1>9, <1>12, <2>2, <2>3 DEF Machine!Call, Stack
  <1>13. CASE ~(call_depth + 1 >= MaxCallDepth) /\ target < program.n
    <2>1. /\ pc' = target /\ meter' = Profile(m, pc, target) /\ reg' = bumped
          /\ due_insn_count' = due /\ phase' = "running" /\ registers11' = registers11
      BY <1>1, <1>13 DEF InternalCall, bumped
    <2>2. Profile(m, pc, target) = target + l
      <3>1. m + target - (pc + 1) = target + l /\ target + l \in Nat
        BY <1>1
      <3>2. remaining \in Nat /\ remaining + program.n < MeterWord /\ MeterWord \in Nat
        BY MeterFits
      <3>3. target + l < MeterWord
        BY <1>1, <1>13, <3>2
      <3>4. QED
        BY <3>1, <3>3, Unwrapped DEF Profile
    <2>3. target \in 0..program.n /\ Counted'
      <3>1. target \in 0..program.n /\ call_depth' < MaxCallDepth
        BY <1>1, <1>2, <1>13
      <3>2. QED
        BY <1>5, <3>1 DEF Counted
    <2>4. JitInv'
      BY <1>1, <1>3, <1>4, <1>5, <2>1, <2>2, <2>3, GoesOn
    <2>5. Machine!Continue(target, reg', mem', Stack', l)
      BY <1>6, <2>1, <2>2, ContinueImplements DEF Code
    <2>6. Machine!Continue(target, bumped, mem, Append(Stack, frame), l)
      BY <1>3, <2>1, <2>5
    <2>7. leftover = 0 => Len(Stack) + 1 # MaxCallDepth
      BY <1>1, <1>7, <1>13
    <2>8. QED
      BY <1>1, <1>6, <1>8, <1>9, <1>13, <2>4, <2>6, <2>7 DEF Machine!Call, Stack
  <1>14. QED
    BY <1>11, <1>12, <1>13

LEMMA CallRegImplements == JitConfig /\ JitInv /\ RunCallReg => Implements
  <1> SUFFICES ASSUME JitConfig, JitInv, RunCallReg PROVE Implements
    OBVIOUS
  <1> DEFINE address == reg[CallxRegister(program, insn)]
             target == CallxTarget(address)
             l == meter - pc - 1
  <1>1. /\ Fetch /\ KeepsMeter /\ insn.op = "CALL_REG" /\ mem' = mem
        /\ InternalCall(meter, reg, program_result, due_insn_count, target)
    BY DEF RunCallReg
  <1>2. /\ phase = "running" /\ UNCHANGED Code
        /\ pc \in 0..program.n-1 /\ program.n \in Nat
        /\ IsProgram(program) /\ Accepts(program)
        /\ meter <= pc => ~ValidatesMeter(program, pc)
    BY <1>1, Fetched
  <1>3. meter \in Nat /\ pc < meter
    BY <1>1, <1>2, MeterFits DEF ValidatesMeter, insn
  <1>4. reg \in [Registers -> Words] /\ due_insn_count \in Nat
    BY DEF JitInv, Types
  <1>5. target \in Nat
    <2>1. address \in Words
      BY <1>1, <1>2, <1>4, AcceptedOperands DEF insn
    <2>2. WrappingSub(address, TextStart) \in Words
      <3>1. address - TextStart \in Int
        BY <2>1, ConfigAssumption, SMTT(60) DEF Words
      <3>2. QED
        BY <3>1, WordModulo DEF WrappingSub
    <2>3. WrappingSub(address, TextStart) \in Nat /\ InsnSize \in Nat \ {0}
      BY <2>2, ConfigAssumption DEF Words
    <2>4. QED
      BY <2>3 DEF CallxTarget
  <1>6. /\ l \in Nat /\ remaining \in Nat /\ l <= remaining /\ remaining <= remaining
        /\ meter = pc + 1 + l
        /\ remaining' = remaining /\ previous_instruction_meter' = remaining
    BY <1>1, <1>2, <1>3, MeterFits DEF KeepsMeter
  <1>7. Left = meter - pc /\ Left > 0 /\ ShownPc = pc /\ Observable(reg) = reg
    BY <1>2, <1>3, Shown
  <1>8. l = Left - 1
    BY <1>2, <1>3, <1>7
  <1>9. program.text[pc].op \in {"CALL_REG", "CALL_IMM"}
    BY <1>1 DEF insn
  <1> HIDE DEF address, target, l
  <1>10. JitInv' /\ (leftover' = 0 => Machine!Call(target, reg, l))
    BY <1>1, <1>2, <1>3, <1>4, <1>5, <1>6, <1>9, CallStep
  <1>11. Machine!At("CALL_REG")
    BY <1>1, <1>2, <1>7 DEF Machine!At, insn
  <1>12. Machine!CallxTarget(Observable(reg)[Machine!CallxRegister(program,
                                                program.text[ShownPc])]) = target
    BY <1>7, SameCalls DEF target, address, insn
  <1>13. ASSUME leftover' = 0 PROVE Machine!CallReg
    BY <1>7, <1>8, <1>10, <1>11, <1>12, <1>13 DEF Machine!CallReg
  <1>14. QED
    BY <1>10, <1>13 DEF Implements, Machine!Next

(* What a CALL_IMM of the abstract machine comes down to.                  *)
LEMMA CallImmShown ==
    ASSUME JitConfig, JitInv, Fetch, insn.op = "CALL_IMM", pc < meter,
           LET sys == ResolvesToSyscall(program, insn)
               fn  == ResolvesToFunction(program, pc, insn)
               l   == IF sys THEN Machine!Max0(Left - 1 - SyscallCost(reg[R1]))
                      ELSE Left - 1
               r   == IF sys THEN [reg EXCEPT ![R0] = SyscallValue(reg[R1])] ELSE reg
           IN  IF sys /\ SyscallFails(reg[R1])
               THEN Machine!Halt(Err("SyscallError"), registers11, l)
               ELSE IF fn THEN Machine!Call(CallTarget(program, pc, insn), r, l)
               ELSE IF sys THEN Machine!Continue(pc + 1, r, mem, Stack, l)
               ELSE Machine!Halt(Err("UnsupportedInstruction"), pc, l)
    PROVE  Machine!CallImm
  <1>1. phase = "running" /\ pc < program.n
    BY DEF Fetch
  <1>2. /\ Left > 0 /\ ShownPc = pc /\ Observable(reg) = reg
        /\ Observable(Stack) = Stack
        /\ (IF phase = "running" /\ Left = 0 THEN Dead ELSE mem) = mem
    BY <1>1, Shown
  <1>3. /\ Machine!ResolvesToSyscall(program, insn) <=> ResolvesToSyscall(program, insn)
        /\ Machine!ResolvesToFunction(program, pc, insn)
              <=> ResolvesToFunction(program, pc, insn)
        /\ Machine!CallTarget(program, pc, insn) = CallTarget(program, pc, insn)
        /\ Machine!R1 = R1 /\ Machine!R0 = R0
        /\ \A e : Machine!Err(e) = Err(e)
    BY SameCalls, SameValues
  <1>4. Machine!At("CALL_IMM")
    BY <1>1, <1>2 DEF Machine!At, insn
  <1>5. program.text[ShownPc] = insn
    BY <1>2 DEF insn
  <1>6. [Observable(reg) EXCEPT ![Machine!R0] = SyscallValue(Observable(reg)[Machine!R1])]
        = [reg EXCEPT ![R0] = SyscallValue(reg[R1])]
    BY <1>2, <1>3
  <1>7. QED
    BY <1>2, <1>3, <1>4, <1>5, <1>6 DEF Machine!CallImm, Stack

LEMMA SyscallImplements == JitConfig /\ JitInv /\ RunSyscall => Implements
  <1> SUFFICES ASSUME JitConfig, JitInv, RunSyscall PROVE Implements
    OBVIOUS
  <1> DEFINE due == meter - pc - 1
             cost == SyscallCost(reg[R1])
             rest == SaturatingSub(due, cost)
             r == [reg EXCEPT ![R0] = SyscallValue(reg[R1])]
             target == CallTarget(program, pc, insn)
             fails == SyscallFails(reg[R1])
             fn == ResolvesToFunction(program, pc, insn)
             m == pc + 1 + rest
  <1>1. Fetch /\ insn.op = "CALL_IMM" /\ ResolvesToSyscall(program, insn) /\ mem' = mem
    BY DEF RunSyscall
  <1>2. /\ phase = "running" /\ UNCHANGED Code
        /\ pc \in 0..program.n-1 /\ program.n \in Nat
        /\ IsProgram(program) /\ Accepts(program)
        /\ meter <= pc => ~ValidatesMeter(program, pc)
    BY <1>1, Fetched
  <1>3. /\ meter \in Nat /\ pc < meter /\ remaining \in Nat /\ meter <= pc + remaining
        /\ remaining = previous_instruction_meter
        /\ remaining + program.n < MeterWord /\ MeterWord \in Nat
    BY <1>1, <1>2, MeterFits DEF ValidatesMeter, insn
  <1>4. /\ reg \in [Registers -> Words] /\ mem \in Words
        /\ host_stack \in Seq(HostFrames) /\ call_depth \in Nat
        /\ Counted /\ CallSites
    BY <1>2 DEF JitInv, Types, Balanced
  <1>5. reg[R1] \in 0..Word-1 /\ cost \in Nat /\ r \in [Registers -> Words]
    BY <1>4, SyscallAssumption DEF Registers, Words
  <1>6. /\ due \in Nat /\ due < remaining
        /\ Profile(meter, pc, 0) = due
    <2>1. due \in Nat /\ due < remaining /\ meter + 0 - (pc + 1) = due
      BY <1>2, <1>3
    <2>2. due < MeterWord
      BY <1>2, <1>3, <2>1
    <2>3. QED
      BY <2>1, <2>2, Unwrapped DEF Profile
  <1> HIDE DEF due, cost, r
  <1>7. SaturatingSub(remaining, previous_instruction_meter - due) = due
    BY <1>3, <1>6 DEF SaturatingSub
  <1>8. /\ rest \in Nat /\ rest <= due /\ rest <= remaining /\ rest <= rest
        /\ rest = Machine!Max0(due - cost)
    BY <1>3, <1>5, <1>6 DEF SaturatingSub, Machine!Max0
  <1>9. UndoProfile(rest, pc, 0) = m
    <2> HIDE DEF rest
    <2>1. rest + (pc + 1) - 0 = m /\ m \in Nat /\ m < MeterWord
      BY <1>2, <1>3, <1>6, <1>8
    <2>2. QED
      BY <2>1, Unwrapped DEF UndoProfile
  <1>10. remaining' = rest /\ previous_instruction_meter' = rest
    BY <1>6, <1>7 DEF RunSyscall, cost
  <1>11. IF fails
         THEN /\ program_result' = Err("SyscallError") /\ phase' = "stopped"
              /\ due_insn_count' = 0
              /\ UNCHANGED <<callVars, registers11, reg, pc, meter>>
         ELSE IF fn THEN InternalCall(m, r, Ok(r[R0]), due, target)
         ELSE /\ pc' = pc + 1 /\ meter' = m /\ reg' = r /\ due_insn_count' = due
              /\ UNCHANGED <<callVars, phase, registers11>>
    BY <1>6, <1>9, <1>10 DEF RunSyscall, r
  <1>12. Left = meter - pc /\ Left > 0
    BY <1>2, <1>3, Shown
  <1>13. due = Left - 1
    BY <1>2, <1>3, <1>12 DEF due
  <1> HIDE DEF rest, m, target, fails, fn
  <1>14. CASE fails
    <2>1. SaturatingSub(rest, 0) = rest
      BY <1>8 DEF SaturatingSub
    <2>2. SaturatingSub(remaining', due_insn_count') = rest
      BY <1>10, <1>11, <1>14, <2>1
    <2>3. CallSites'
      <3>1. UNCHANGED <<program, host_stack>>
        BY <1>2, <1>11, <1>14 DEF callVars, Code
      <3>2. QED
        BY <1>4, <3>1 DEF CallSites
    <2>4. JitInv'
      BY <1>1, <1>2, <1>4, <1>8, <1>10, <1>11, <1>14, <2>3, Stops DEF callVars
    <2>5. Machine!Halt(program_result', registers11', rest)
      BY <1>1, <1>2, <1>11, <1>12, <1>14, <2>2, HaltImplements DEF Code
    <2>6. Machine!Halt(Err("SyscallError"), registers11, rest)
      BY <1>11, <1>14, <2>5
    <2>7. Machine!CallImm
      BY <1>1, <1>3, <1>8, <1>13, <1>14, <2>6, CallImmShown DEF fails, cost
    <2>8. QED
      BY <2>4, <2>7 DEF Implements, Machine!Next
  <1>15. CASE ~fails /\ fn
    <2>1. target \in Nat
      <3>1. target \in 0..program.n-1
        BY <1>2, <1>15 DEF fn, target, ResolvesToFunction, CallTarget, IsProgram
      <3>2. QED
        BY <1>2, <3>1
    <2>2. m = pc + 1 + rest /\ program.text[pc].op \in {"CALL_REG", "CALL_IMM"}
      BY <1>1 DEF m, insn
    <2>3. JitInv' /\ (leftover' = 0 => Machine!Call(target, r, rest))
      BY <1>1, <1>2, <1>3, <1>5, <1>6, <1>8, <1>10, <1>11, <1>15, <2>1, <2>2, CallStep
    <2>4. ASSUME leftover' = 0 PROVE Machine!CallImm
      BY <1>1, <1>3, <1>8, <1>13, <1>15, <2>3, <2>4, CallImmShown
         DEF fails, fn, cost, r, target
    <2>5. QED
      BY <2>3, <2>4 DEF Implements, Machine!Next
  <1>16. CASE ~fails /\ ~fn
    <2> DEFINE to == pc + 1
    <2>1. to \in 0..program.n /\ to \in Nat /\ m = to + rest
      BY <1>2 DEF m
    <2>2. /\ pc' = to /\ meter' = to + rest /\ reg' = r /\ due_insn_count' \in Nat
          /\ phase' = "running" /\ registers11' = registers11
          /\ UNCHANGED callVars
      BY <1>2, <1>6, <1>11, <1>16, <2>1
    <2> HIDE DEF to
    <2>3. host_stack' \in Seq(HostFrames) /\ Counted' /\ CallSites'
      BY <1>2, <1>4, <2>2 DEF Counted, CallSites, callVars, Code
    <2>4. JitInv'
      BY <1>1, <1>2, <1>4, <1>5, <1>8, <1>10, <2>1, <2>2, <2>3, GoesOn
    <2>5. Machine!Continue(to, reg', mem', Stack', rest)
      BY <1>2, <1>8, <1>12, <2>1, <2>2, ContinueImplements DEF Code
    <2>6. Stack' = Stack
      BY <2>2 DEF Stack, callVars
    <2>7. Machine!Continue(pc + 1, r, mem, Stack, rest)
      BY <1>1, <2>2, <2>5, <2>6 DEF to
    <2>8. Machine!CallImm
      BY <1>1, <1>3, <1>8, <1>13, <1>16, <2>7, CallImmShown DEF fails, fn, cost, r
    <2>9. QED
      BY <2>4, <2>8 DEF Implements, Machine!Next
  <1>17. QED
    BY <1>14, <1>15, <1>16

LEMMA CallImmImplements == JitConfig /\ JitInv /\ RunCallImm => Implements
  <1> SUFFICES ASSUME JitConfig, JitInv, RunCallImm PROVE Implements
    OBVIOUS
  <1> DEFINE l == meter - pc - 1
             target == CallTarget(program, pc, insn)
  <1>1. /\ Fetch /\ KeepsMeter /\ insn.op = "CALL_IMM"
        /\ ~ResolvesToSyscall(program, insn) /\ mem' = mem
    BY DEF RunCallImm
  <1>2. /\ phase = "running" /\ UNCHANGED Code
        /\ pc \in 0..program.n-1 /\ program.n \in Nat
        /\ IsProgram(program) /\ Accepts(program)
        /\ meter <= pc => ~ValidatesMeter(program, pc)
    BY <1>1, Fetched
  <1>3. /\ meter \in Nat /\ remaining \in Nat /\ meter <= pc + remaining
        /\ remaining = previous_instruction_meter
    BY <1>2, MeterFits
  <1>4. CASE ResolvesToFunction(program, pc, insn)
    <2>1. pc < meter
      BY <1>1, <1>2, <1>3, <1>4 DEF ValidatesMeter, insn
    <2>2. InternalCall(meter, reg, program_result, due_insn_count, target)
      BY <1>4 DEF RunCallImm
    <2>3. reg \in [Registers -> Words] /\ due_insn_count \in Nat
      BY DEF JitInv, Types
    <2>4. target \in Nat
      <3>1. target \in 0..program.n-1
        BY <1>2, <1>4 DEF ResolvesToFunction, CallTarget, IsProgram
      <3>2. QED
        BY <1>2, <3>1
    <2>5. /\ l \in Nat /\ l <= remaining /\ remaining <= remaining
          /\ meter = pc + 1 + l
          /\ remaining' = remaining /\ previous_instruction_meter' = remaining
      BY <1>1, <1>2, <1>3, <2>1 DEF KeepsMeter
    <2>6. Left = meter - pc
      BY <1>2, <2>1, Shown
    <2>7. l = Left - 1
      BY <1>2, <1>3, <2>6
    <2>8. program.text[pc].op \in {"CALL_REG", "CALL_IMM"}
      BY <1>1 DEF insn
    <2> HIDE DEF target, l
    <2>9. JitInv' /\ (leftover' = 0 => Machine!Call(target, reg, l))
      BY <1>1, <1>2, <1>3, <2>1, <2>2, <2>3, <2>4, <2>5, <2>8, CallStep
    <2>10. ASSUME leftover' = 0 PROVE Machine!CallImm
      BY <1>1, <1>4, <2>1, <2>7, <2>9, <2>10, CallImmShown DEF target
    <2>11. QED
      BY <2>9, <2>10 DEF Implements, Machine!Next
  <1>5. CASE ~ResolvesToFunction(program, pc, insn)
    <2>1. /\ ThrowException("UnsupportedInstruction", meter, pc)
          /\ UNCHANGED <<callVars, mem, pc, meter, reg>>
      BY <1>1, <1>5 DEF RunCallImm
    <2>2. CASE meter <= pc
      BY <1>1, <1>2, <2>1, <2>2, ExceedStep DEF ThrowException, Implements, Machine!Next
    <2>3. CASE pc < meter
      <3>1. JitInv' /\ Machine!Halt(Err("UnsupportedInstruction"), pc, Left - 1)
        BY <1>1, <1>2, <2>1, <2>3, ThrowStep
      <3>2. Machine!CallImm
        BY <1>1, <1>5, <2>3, <3>1, CallImmShown
      <3>3. QED
        BY <3>1, <3>2 DEF Implements, Machine!Next
    <2>4. QED
      BY <1>2, <1>3, <2>2, <2>3
  <1>6. QED
    BY <1>4, <1>5

(* A frame taken off the host stack.                                       *)
LEMMA StackPopped ==
    ASSUME JitConfig, JitInv, Len(host_stack) # 0, UNCHANGED Code,
           host_stack' = SubSeq(host_stack, 1, Len(host_stack) - 1)
    PROVE  /\ host_stack[Len(host_stack)] \in HostFrames
           /\ host_stack[Len(host_stack)].call_pc < program.n
           /\ program.text[host_stack[Len(host_stack)].call_pc].op
                 \in {"CALL_REG", "CALL_IMM"}
           /\ host_stack' \in Seq(HostFrames) /\ Len(host_stack') = Len(host_stack) - 1
           /\ CallSites'
           /\ Stack' = SubSeq(Stack, 1, Len(Stack) - 1)
           /\ Stack # << >> /\ Len(Stack) = Len(host_stack)
  <1> DEFINE popped == SubSeq(host_stack, 1, Len(host_stack) - 1)
  <1>1. program' = program /\ host_stack \in Seq(HostFrames) /\ program.n \in Nat
    BY ProgramFacts DEF JitInv, Types, Code
  <1>2. /\ popped \in Seq(HostFrames) /\ Len(popped) = Len(host_stack) - 1
        /\ \A i \in 1..Len(popped) : i \in 1..Len(host_stack) /\ popped[i] = host_stack[i]
        /\ Len(host_stack) \in 1..Len(host_stack)
    <2>1. PICK n \in Nat : n = Len(host_stack)
      BY <1>1
    <2>2. n # 0 /\ n \in 1..n
      BY <2>1
    <2>3. popped \in Seq(HostFrames) /\ Len(popped) = n - 1
      BY <1>1, <2>1, <2>2
    <2>4. ASSUME NEW i \in 1..n-1 PROVE popped[i] = host_stack[i]
      BY <1>1, <2>1, <2>2
    <2> HIDE DEF popped
    <2>5. QED
      BY <2>1, <2>2, <2>3, <2>4
  <1>3. /\ host_stack[Len(host_stack)] \in HostFrames
        /\ host_stack[Len(host_stack)].call_pc < program.n
        /\ program.text[host_stack[Len(host_stack)].call_pc].op
              \in {"CALL_REG", "CALL_IMM"}
    BY <1>1, <1>2 DEF JitInv, CallSites
  <1> HIDE DEF popped
  <1>4. host_stack' = popped
    BY DEF popped
  <1>5. CallSites'
    BY <1>1, <1>2, <1>4 DEF JitInv, CallSites
  <1>6. /\ Stack' = SubSeq(Stack, 1, Len(Stack) - 1)
        /\ Stack # << >> /\ Len(Stack) = Len(host_stack)
    <2> DEFINE View(h) == [r6 |-> h.r6, fp |-> h.fp, target_pc |-> h.call_pc + 1]
    <2>1. Stack = [i \in 1..Len(host_stack) |-> View(host_stack[i])]
      BY DEF Stack
    <2>2. Stack' = [i \in 1..Len(popped) |-> View(popped[i])]
      BY <1>4 DEF Stack
    <2> HIDE DEF View
    <2>3. Len(Stack) = Len(host_stack) /\ Stack # << >>
      BY <1>1, <1>2, <2>1
    <2>4. SubSeq(Stack, 1, Len(Stack) - 1) = [i \in 1..Len(popped) |-> View(popped[i])]
      BY <1>1, <1>2, <2>1, <2>3, SMTT(60)
    <2>5. QED
      BY <2>2, <2>3, <2>4
  <1>7. QED
    BY <1>2, <1>3, <1>4, <1>5, <1>6

(* The program does not end in a call, whose callee would return behind    *)
(* the last instruction.                                                   *)
ReturnsInside(p) == p.text[p.n - 1].op \notin {"CALL_REG", "CALL_IMM"}

(* The account of an exit and of the call site it returns to.              *)
LEMMA ExitMeter ==
    ASSUME JitConfig, JitInv, Fetch, insn.op = "EXIT"
    PROVE  /\ phase = "running" /\ pc < meter /\ UNCHANGED Code
           /\ pc \in 0..program.n-1 /\ program.n \in Nat
           /\ Left = meter - pc /\ Left - 1 \in Nat /\ Left - 1 < remaining
           /\ remaining \in Nat
           /\ Profile(meter, pc, 0) = Left - 1
           /\ \A at \in 0..program.n-1 :
                 UndoProfile(Left - 1, at, 0) = (at + 1) + (Left - 1)
  <1>1. /\ phase = "running" /\ UNCHANGED Code
        /\ pc \in 0..program.n-1 /\ program.n \in Nat
        /\ meter <= pc => ~ValidatesMeter(program, pc)
    BY Fetched
  <1>2. /\ meter \in Nat /\ pc < meter /\ remaining \in Nat /\ meter <= pc + remaining
        /\ remaining + program.n < MeterWord /\ MeterWord \in Nat
    BY <1>1, MeterFits DEF ValidatesMeter, insn
  <1>3. Left = meter - pc
    BY <1>1, <1>2, Shown
  <1> DEFINE l == Left - 1
  <1>4. l \in Nat /\ l < remaining /\ meter + 0 - (pc + 1) = l
    BY <1>1, <1>2, <1>3
  <1> HIDE DEF l
  <1>5. l < MeterWord
    BY <1>1, <1>2, <1>4
  <1>6. Profile(meter, pc, 0) = l
    BY <1>4, <1>5, Unwrapped DEF Profile
  <1>7. ASSUME NEW at \in 0..program.n-1
        PROVE  UndoProfile(l, at, 0) = (at + 1) + l
    <2>1. /\ l + (at + 1) - 0 = (at + 1) + l /\ (at + 1) + l \in Nat
          /\ (at + 1) + l < MeterWord
      BY <1>1, <1>2, <1>4
    <2>2. QED
      BY <2>1, Unwrapped DEF UndoProfile
  <1>8. QED
    BY <1>1, <1>2, <1>3, <1>4, <1>6, <1>7 DEF l

(* Exit keeps the invariant, and is the exit of the abstract machine       *)
(* unless the call it returns from was the last instruction.               *)
LEMMA ExitImplements ==
    JitConfig /\ JitInv /\ RunExit => JitInv' /\ (ReturnsInside(program) => Implements)
  <1> SUFFICES ASSUME JitConfig, JitInv, RunExit
               PROVE  JitInv' /\ (ReturnsInside(program) => Implements)
    OBVIOUS
  <1> DEFINE l == Left - 1
             top == host_stack[Len(host_stack)]
  <1>1. Fetch /\ KeepsMeter /\ insn.op = "EXIT" /\ mem' = mem
    BY DEF RunExit
  <1>2. /\ phase = "running" /\ pc < meter /\ UNCHANGED Code
        /\ pc \in 0..program.n-1 /\ program.n \in Nat
        /\ Left = meter - pc /\ l \in Nat /\ l < remaining /\ remaining \in Nat
        /\ Profile(meter, pc, 0) = l
        /\ \A at \in 0..program.n-1 : UndoProfile(l, at, 0) = (at + 1) + l
    BY <1>1, ExitMeter
  <1>3. /\ IF call_depth = 0
           THEN /\ program_result' = Ok(reg[R0]) /\ Epilogue(l + 1, 0)
                /\ UNCHANGED <<callVars, reg, pc, meter, registers11>>
           ELSE IF host_stack = << >>
           THEN /\ call_depth' = call_depth - 1 /\ phase' = "stopped"
                /\ UNCHANGED <<host_stack, due_insn_count, reg, pc, meter>>
           ELSE /\ call_depth' = call_depth - 1
                /\ host_stack' = SubSeq(host_stack, 1, Len(host_stack) - 1)
                /\ reg' = [reg EXCEPT ![R6] = top.r6, ![FP] = top.fp]
                /\ GoOn(top.call_pc + 1, UndoProfile(l, top.call_pc, 0))
    BY <1>2 DEF RunExit
  <1>4. /\ reg \in [Registers -> Words] /\ mem \in Words
        /\ host_stack \in Seq(HostFrames) /\ call_depth \in Nat
        /\ Counted /\ CallSites /\ leftover \in Nat /\ leftover' = leftover
        /\ due_insn_count \in Nat /\ MaxCallDepth \in Nat /\ program \in Programs
    BY <1>2, ConfigAssumption DEF JitInv, Types, Balanced, Code
  <1>5. /\ remaining' = remaining /\ previous_instruction_meter' = remaining
        /\ remaining <= remaining /\ l <= remaining
    BY <1>1, <1>2, MeterFits DEF KeepsMeter
  <1>6. /\ Left > 0 /\ ShownPc = pc /\ Observable(reg) = reg
        /\ Observable(Stack) = Stack
        /\ (IF phase = "running" /\ Left = 0 THEN Dead ELSE mem) = mem
    BY <1>2, Shown
  <1>7. Machine!At("EXIT")
    BY <1>1, <1>2, <1>6 DEF Machine!At, insn
  <1> HIDE DEF l, top
  <1>8. CASE call_depth = 0
    <2>1. (l + 1) - 1 - 0 = l
      BY <1>2
    <2>2. /\ phase' = "stopped" /\ due_insn_count' \in Nat
          /\ SaturatingSub(remaining', due_insn_count') = l
      BY <1>2, <1>3, <1>5, <1>8, <2>1, Returning
    <2>3. CallSites' /\ call_depth' = 0
      BY <1>2, <1>3, <1>4, <1>8 DEF CallSites, callVars, Code
    <2>4. JitInv'
      BY <1>1, <1>2, <1>3, <1>4, <1>5, <1>8, <2>2, <2>3, Stops DEF callVars
    <2>5. Machine!Halt(program_result', registers11', l)
      BY <1>1, <1>2, <1>6, <2>2, HaltImplements DEF Code
    <2>6. Machine!Halt(Ok(reg[R0]), registers11, l)
      BY <1>3, <1>8, <2>5
    <2>7. Stack = << >>
      <3>1. Len(host_stack) = 0
        BY <1>4, <1>8 DEF Counted
      <3>2. QED
        BY <3>1 DEF Stack
    <2>8. Machine!Exit
      BY <1>6, <1>7, <2>6, <2>7, SameValues DEF Machine!Exit, Stack, l
    <2>9. QED
      BY <2>4, <2>8 DEF Implements, Machine!Next
  <1>9. CASE call_depth # 0 /\ host_stack = << >>
    <2>1. leftover' # 0 /\ call_depth - 1 \in Nat
      BY <1>4, <1>9 DEF Counted
    <2>2. CallSites' /\ host_stack' = host_stack
      BY <1>2, <1>3, <1>4, <1>9 DEF CallSites, Code
    <2>3. JitInv'
      BY <1>1, <1>2, <1>3, <1>4, <1>5, <1>9, <2>1, <2>2, Stops
    <2>4. QED
      BY <2>1, <2>3 DEF Implements
  <1>10. CASE call_depth # 0 /\ host_stack # << >>
    <2> DEFINE to == top.call_pc + 1
    <2>0. Len(host_stack) # 0
      BY <1>4, <1>10
    <2>1. /\ top \in HostFrames /\ top.call_pc < program.n
          /\ program.text[top.call_pc].op \in {"CALL_REG", "CALL_IMM"}
          /\ host_stack' \in Seq(HostFrames) /\ Len(host_stack') = Len(host_stack) - 1
          /\ CallSites'
          /\ Stack' = SubSeq(Stack, 1, Len(Stack) - 1)
          /\ Stack # << >> /\ Len(Stack) = Len(host_stack)
      BY <1>2, <1>3, <1>10, <2>0, StackPopped DEF top
    <2>2. top.call_pc \in Nat /\ top.r6 \in Words /\ top.fp \in Words
      BY <2>1 DEF HostFrames
    <2>3. top.call_pc \in 0..program.n-1 /\ to \in 0..program.n /\ to \in Nat
      <3>1. PICK at \in Nat : at = top.call_pc
        BY <2>2
      <3>2. at \in 0..program.n-1 /\ at + 1 \in 0..program.n /\ at + 1 \in Nat
        BY <1>2, <2>1, <3>1
      <3>3. QED
        BY <3>1, <3>2
    <2>4. /\ pc' = to /\ meter' = to + l /\ phase' = "running"
          /\ due_insn_count' = due_insn_count /\ registers11' = registers11
          /\ reg' = [reg EXCEPT ![R6] = top.r6, ![FP] = top.fp]
      BY <1>2, <1>3, <1>10, <2>3 DEF GoOn
    <2>5. reg' \in [Registers -> Words]
      BY <1>4, <2>2, <2>4 DEF Registers
    <2>6. Counted'
      <3>1. PICK k \in Nat : k = Len(host_stack)
        BY <1>4
      <3>2. /\ call_depth' = call_depth - 1 /\ Len(host_stack') = k - 1
            /\ call_depth = leftover + k /\ (leftover = 0 => call_depth < MaxCallDepth)
        BY <1>3, <1>4, <1>10, <2>1, <3>1 DEF Counted
      <3>3. /\ call_depth' = leftover' + Len(host_stack')
            /\ leftover' = 0 => call_depth' < MaxCallDepth
        BY <1>4, <3>1, <3>2
      <3>4. QED
        BY <3>3 DEF Counted
    <2> HIDE DEF to
    <2>7. JitInv'
      BY <1>1, <1>2, <1>4, <1>5, <2>1, <2>3, <2>4, <2>5, <2>6, GoesOn
    <2>8. ASSUME ReturnsInside(program) PROVE Machine!Exit
      <3>1. IsPcInProgram(program, to)
        <4>1. top.call_pc # program.n - 1
          BY <1>4, <2>1, <2>8 DEF ReturnsInside
        <4>2. QED
          BY <1>2, <2>3, <4>1 DEF IsPcInProgram, to
      <3>2. /\ Stack[Len(Stack)].r6 = top.r6 /\ Stack[Len(Stack)].fp = top.fp
            /\ Stack[Len(Stack)].target_pc = to
        <4>1. Len(host_stack) \in 1..Len(host_stack)
          BY <1>4, <2>0
        <4>2. Stack[Len(host_stack)] =
                 [r6 |-> top.r6, fp |-> top.fp, target_pc |-> top.call_pc + 1]
          BY <4>1 DEF Stack, top
        <4>3. QED
          BY <2>1, <4>2 DEF to
      <3>3. Machine!Continue(to, reg', mem', Stack', l)
        BY <1>2, <1>6, <2>3, <2>4, ContinueImplements DEF Code
      <3> DEFINE s == Stack[Len(Stack)]
                 back == [reg EXCEPT ![Machine!R6] = s.r6, ![Machine!FP] = s.fp]
      <3>4. back = reg'
        BY <2>4, <3>2, SameValues
      <3> HIDE DEF back
      <3>5. Machine!Continue(s.target_pc, back, mem, SubSeq(Stack, 1, Len(Stack) - 1),
                             Left - 1)
        BY <1>1, <2>1, <3>2, <3>3, <3>4 DEF l
      <3>6. Machine!IsPcInProgram(program, s.target_pc)
        BY <3>1, <3>2, SamePrograms
      <3>7. QED
        BY <1>6, <1>7, <2>1, <3>5, <3>6 DEF Machine!Exit, Stack, back
    <2>9. QED
      BY <2>7, <2>8 DEF Implements, Machine!Next
  <1>11. QED
    BY <1>8, <1>9, <1>10

-----------------------------------------------------------------------------
(* What execute_program does around the emitted code.                      *)

LEMMA StartImplements ==
    ASSUME JitConfig, JitInv, NEW budget \in Budgets, ExecuteProgram(budget)
    PROVE  Implements
  <1>1. /\ phase \in {"idle", "done"} /\ phase' = "running"
        /\ program' = program /\ remaining' = budget
        /\ previous_instruction_meter' = budget /\ initial_insn_count' = budget
        /\ due_insn_count' = 0 /\ registers11' = program.entry
        /\ reg' = StartRegisters /\ pc' = program.entry
        /\ UNCHANGED <<compilerVars, callVars, mem, result>> /\ leftover' = call_depth
    BY DEF ExecuteProgram
  <1>2. /\ program \in Programs /\ program.n \in Nat \ {0}
        /\ program.entry \in 0..program.n-1
        /\ budget \in Nat /\ budget + program.n < MeterWord /\ MeterWord \in Nat
    BY ProgramFacts DEF JitInv, Types
  <1>3. meter' = program.entry + budget
    <2>1. /\ budget + program.entry \in Nat /\ budget + program.entry < MeterWord
          /\ budget + program.entry = program.entry + budget
      BY <1>2
    <2>2. QED
      BY <2>1, Unwrapped DEF ExecuteProgram
  <1>4. host_stack' = << >> /\ call_depth' = leftover' /\ leftover' \in Nat
    BY <1>1 DEF JitInv, Types, Balanced, callVars
  <1>5. /\ reg' \in [Registers -> Words]
        /\ reg'[FP] = InitialFramePointer(program.version) /\ reg'[R6] = 0
        /\ mem \in Words /\ mem' = mem
    BY <1>1, InitialWords DEF StartRegisters, Registers, R6, FP, JitInv, Types
  <1> DEFINE at == program.entry
             m == at + budget
  <1>6. /\ at \in Nat /\ at \in 0..program.n /\ m \in Nat /\ m <= at + budget
        /\ m..at-1 = {} /\ SaturatingSub(m, at) = budget
        /\ (IF m <= at THEN m ELSE at) = at
    BY <1>2 DEF SaturatingSub
  <1> HIDE DEF at, m
  <1>7. pc' = at /\ meter' = m
    BY <1>1, <1>3 DEF at, m
  <1>8. JitInv'
    <2>1. Compiling' /\ Windows'
      BY <1>1 DEF JitInv, Compiling, Windows, Plain, compilerVars
    <2>2. Types' /\ Metered'
      BY <1>1, <1>2, <1>4, <1>5, <1>6, <1>7, SMTT(60) DEF Types, Metered
    <2>3. CallSites' /\ Balanced' /\ Straight'
      <3>1. CallSites'
        BY <1>4 DEF CallSites
      <3>2. /\ call_depth' = leftover' + Len(host_stack')
            /\ leftover' = 0 => call_depth' < MaxCallDepth
        <4>1. Len(host_stack') = 0 /\ MaxCallDepth \in Nat \ {0}
          BY <1>4, ConfigAssumption
        <4>2. PICK n \in Nat : n = leftover'
          BY <1>4
        <4>3. n = n + 0 /\ (n = 0 => n < MaxCallDepth)
          BY <4>1
        <4>4. QED
          BY <1>4, <4>1, <4>2, <4>3
      <3>3. Balanced'
        BY <1>1, <3>2 DEF Balanced, Counted
      <3>4. Straight'
        BY <1>6, <1>7 DEF Straight
      <3>5. QED
        BY <3>1, <3>3, <3>4
    <2>4. QED
      BY <2>1, <2>2, <2>3 DEF JitInv
  <1>9. Left' = budget /\ ShownPc' = at
    BY <1>1, <1>6, <1>7 DEF Left, ShownPc
  <1>10. Stack' = << >>
    BY <1>4 DEF Stack
  <1>11. Machine!Start
    <2>1. /\ phase # "running" /\ phase # "stopped" /\ phase' # "stopped"
          /\ result' = result
          /\ (IF phase = "running" /\ Left = 0 THEN Dead ELSE mem) = mem
          /\ (IF phase' = "running" /\ Left' = 0 THEN Dead ELSE mem')
                = Machine!Visible(budget, mem)
          /\ Observable(Stack)' = Machine!Visible(budget, << >>)
          /\ Observable(reg)' = IF budget = 0 THEN Dead ELSE reg'
      BY <1>1, <1>2, <1>5, <1>9, <1>10 DEF Machine!Visible, Observable
    <2>2. /\ Machine!Registers = Registers /\ Machine!Words = Words
          /\ Machine!FP = FP /\ Machine!R6 = R6
          /\ Machine!InitialFramePointer(program.version)
                = InitialFramePointer(program.version)
      BY SameValues, SameFrames
    <2>3. QED
      BY <1>1, <1>5, <1>9, <2>1, <2>2 DEF Machine!Start, Stack, at
  <1>12. QED
    BY <1>8, <1>11 DEF Implements, Machine!Next

LEMMA FinishWaits == JitConfig /\ JitInv /\ Finish => JitInv' /\ Waits
  <1> SUFFICES ASSUME JitConfig, JitInv, Finish PROVE JitInv' /\ Waits
    OBVIOUS
  <1>1. /\ phase = "stopped" /\ phase' = "done" /\ host_stack' = << >>
        /\ result' = program_result /\ remaining' = SaturatingSub(remaining, due_insn_count)
        /\ UNCHANGED <<program, compilerVars, call_depth, previous_instruction_meter,
                       due_insn_count, registers11, mem, pc, meter, reg, leftover,
                       initial_insn_count>>
    BY DEF Finish
  <1>2. remaining' \in Nat
    BY <1>1 DEF JitInv, Types, SaturatingSub
  <1>3. Types' /\ Metered' /\ CallSites' /\ Balanced' /\ Straight'
    <2>1. Types'
      BY <1>1, <1>2 DEF JitInv, Types
    <2>2. Metered' /\ CallSites' /\ Straight'
      BY <1>1 DEF Metered, CallSites, Straight
    <2>3. Balanced'
      BY <1>1 DEF Balanced
    <2>4. QED
      BY <2>1, <2>2, <2>3
  <1>4. Compiling' /\ Windows'
    BY <1>1 DEF JitInv, Compiling, Windows, Plain, compilerVars
  <1>5. Left' = Left /\ ShownPc' = ShownPc
    BY <1>1 DEF Left, ShownPc
  <1>6. UNCHANGED Machine!vars
    BY <1>1, <1>5 DEF Machine!vars, Observable
  <1>7. QED
    BY <1>1, <1>3, <1>4, <1>6 DEF JitInv, Waits

LEMMA CompileImplements == JitConfig /\ JitInv /\ Compile => Implements
  <1> SUFFICES ASSUME JitConfig, JitInv, Compile PROVE Implements
    OBVIOUS
  <1>1. /\ phase = "compiling" /\ phase' \in {"compiling", "idle"}
        /\ UNCHANGED <<program, remaining, mem, result, registers11>>
    BY DEF Compile, EmitInstruction, EmitBumper, meterVars, returnVars
  <1>2. Left' = Left /\ ShownPc' = ShownPc
    BY <1>1 DEF Left, ShownPc
  <1>3. UNCHANGED Machine!vars
    BY <1>1, <1>2 DEF Machine!vars, Observable
  <1>4. QED
    BY <1>1, <1>3, CompileKeeps DEF Implements, Waits

(* The emitted code keeps the invariant, and implements Execution unless   *)
(* the program ends in a call.                                             *)
LEMMA RunImplements ==
    JitConfig /\ JitInv /\ Run => JitInv' /\ (ReturnsInside(program) => Implements)
  BY ExceededImplements, BumperImplements, ArithmeticImplements, QuotientImplements,
     LoadStoreImplements, LoadDoubleWordImplements, JumpImplements, CallRegImplements,
     SyscallImplements, CallImmImplements, ExitImplements, UnsupportedImplements
     DEF Run, Implements

(* The machine stays where nothing happens.                                *)
LEMMA MachineStays == UNCHANGED vars => UNCHANGED Machine!vars
  <1> SUFFICES ASSUME UNCHANGED vars PROVE UNCHANGED Machine!vars
    OBVIOUS
  <1>1. UNCHANGED <<program, phase, callVars, meterVars, registers11, program_result, mem,
                    pc, meter, reg, returnVars>>
    BY DEF vars
  <1>2. Left' = Left /\ ShownPc' = ShownPc
    BY <1>1 DEF Left, ShownPc, meterVars
  <1>3. QED
    BY <1>1, <1>2 DEF Machine!vars, Observable, callVars, returnVars

(* So does every step.                                                     *)
LEMMA StepImplements ==
    JitConfig /\ JitInv /\ [Next]_vars =>
        /\ JitInv'
        /\ ReturnsInside(program) /\ leftover' = 0 =>
              Machine!Next \/ UNCHANGED Machine!vars
  <1> SUFFICES ASSUME JitConfig, JitInv, [Next]_vars
               PROVE  /\ JitInv'
                      /\ ReturnsInside(program) /\ leftover' = 0 =>
                            Machine!Next \/ UNCHANGED Machine!vars
    OBVIOUS
  <1>1. CASE UNCHANGED vars
    <2>1. UNCHANGED <<program, phase, compilerVars, callVars, meterVars, registers11,
                      program_result, mem, pc, meter, reg, returnVars>>
      BY <1>1 DEF vars
    <2>2. JitInv'
      BY <2>1 DEF JitInv, Types, Metered, CallSites, Balanced, Counted, Compiling, Windows,
                  Straight, Plain, compilerVars, callVars, meterVars, returnVars
    <2>3. QED
      BY <1>1, <2>2, MachineStays
  <1>2. CASE Compile
    BY <1>2, CompileImplements DEF Implements, Waits
  <1>3. CASE \E budget \in Budgets : ExecuteProgram(budget)
    BY <1>3, StartImplements DEF Implements, Waits
  <1>4. CASE Run
    BY <1>4, RunImplements DEF Implements, Waits
  <1>5. CASE Finish
    BY <1>5, FinishWaits DEF Waits
  <1>6. QED
    BY <1>1, <1>2, <1>3, <1>4, <1>5 DEF Next

-----------------------------------------------------------------------------
(* The theorems.                                                           *)

(* What the invariant says of code that runs past its budget.              *)
LEMMA OverrunFollows == JitConfig /\ JitInv => OverrunBounded
  <1> SUFFICES ASSUME JitConfig, JitInv, phase = "running"
               PROVE  pc <= meter + CheckpointDistance
    BY DEF OverrunBounded
  <1>1. /\ program.n \in Nat /\ CheckpointDistance \in Nat /\ pc \in 0..program.n
        /\ meter \in Nat /\ emit_pc = program.n
    BY ProgramFacts DEF JitInv, Types, Compiling
  <1>2. CASE pc <= meter
    BY <1>1, <1>2
  <1>3. CASE meter < pc
    <2>1. meter \in 0..emit_pc /\ pc \in 0..emit_pc
      BY <1>1, <1>3
    <2>2. \A q \in meter..pc-1 : Plain(q)
      BY DEF JitInv, Straight
    <2>3. pc - meter <= CheckpointDistance
      BY <2>1, <2>2 DEF JitInv, Windows
    <2>4. QED
      BY <1>1, <2>3
  <1>4. QED
    BY <1>1, <1>2, <1>3

(* Wherever a jump, a call or a return enters it, compiled code executes   *)
(* at most CheckpointDistance instructions its budget does not cover.      *)
THEOREM OverrunAlwaysBounded == ASSUME JitConfig PROVE Spec => []OverrunBounded
  <1>1. Init => JitInv
    BY JitInvInit
  <1>2. JitInv /\ [Next]_vars => JitInv'
    BY StepImplements
  <1>3. JitInv => OverrunBounded
    BY OverrunFollows
  <1>4. QED
    BY <1>1, <1>2, <1>3, PTL DEF Spec

(* However often a VM executes its program and however each execution      *)
(* ended, call_depth counts the frames on the host stack on top of the     *)
(* calls that earlier executions left: from depth 0, EXIT returns to a     *)
(* call exactly when compiled code has pushed one.                         *)
THEOREM HostStackAlwaysMatches ==
    ASSUME JitConfig PROVE Spec => []HostStackMatchesDepth
  <1>1. Init => JitInv
    BY JitInvInit
  <1>2. JitInv /\ [Next]_vars => JitInv'
    BY StepImplements
  <1>3. JitInv => HostStackMatchesDepth
    BY DEF JitInv, Balanced, Counted, HostStackMatchesDepth
  <1>4. QED
    BY <1>1, <1>2, <1>3, PTL DEF Spec

(* Whatever the accepted programs, budgets and the distance of the         *)
(* checkpoints, what compiled code costs, returns and leaves in memory is  *)
(* what Execution says in every execution that begins at call depth 0,     *)
(* unless a program ends in a call.                                        *)
THEOREM CompiledImplements ==
    ASSUME JitConfig, \A p \in Programs : ReturnsInside(p)
    PROVE  Spec => JitImplementsExecution
  <1>1. Init => JitInv /\ Machine!Init
    BY JitInvInit, InitImplements
  <1>2. JitInv /\ [Next]_vars => JitInv'
    BY StepImplements
  <1>3. JitInv => ReturnsInside(program)
    BY DEF JitInv, Types
  <1>4. JitInv /\ [Next]_vars =>
           [leftover' = 0 => Machine!Next \/ UNCHANGED Machine!vars]_vars
    BY <1>3, StepImplements
  <1>5. QED
    BY <1>1, <1>2, <1>4, PTL DEF Spec, JitImplementsExecution

-----------------------------------------------------------------------------
(* Compiled code goes through the states of the machine, one after the     *)
(* other, and traces them: what the two engines have in common.            *)

(* A machine that goes on has the state that After says.                   *)
LEMMA ContinueDetermined ==
    ASSUME phase = "running", NEW to, NEW r, NEW m, NEW f, NEW l,
           Machine!Continue(to, r, m, f, l)
    PROVE  Machine!State' = Machine!Going(Machine!State, to, r, m, f, l)
  BY DEF Machine!Continue, Machine!State, Machine!Going

(* So has one that halts.                                                  *)
LEMMA HaltDetermined ==
    ASSUME phase = "running", NEW r, NEW at, NEW l, Machine!Halt(r, at, l),
           Left = 0 => r = Machine!Exceeded
    PROVE  Machine!State' = Machine!Halted(program, Machine!State, r, at, l)
  BY DEF Machine!Halt, Machine!State, Machine!Halted

(* Which of its cases After takes.                                         *)
LEMMA InsnDetermined ==
    ASSUME NEW p, NEW s, NEW i
    PROVE  /\ Machine!IsDataOp(p, i) => Machine!AfterInsn(p, s, i) = Machine!AfterData(p, s, i)
           /\ Machine!IsUnsupported(p, i) => Machine!AfterInsn(p, s, i) =
                 Machine!Halted(p, s, Machine!Err("UnsupportedInstruction"), s.pc, s.left - 1)
           /\ i.op = "LD_DW_IMM" /\ ~Machine!DisableLddw(p.version) =>
                 Machine!AfterInsn(p, s, i) =
                 Machine!Going(s, s.pc + 2, [s.reg EXCEPT ![i.dst] = Arith(i.op, @, i.imm)],
                               s.mem, s.frames, s.left - 1)
           /\ i.op \in {"JA", "JEQ"} => Machine!AfterInsn(p, s, i) =
                 Machine!Going(s, IF Machine!BranchTaken(i, s.reg) THEN Machine!JumpTarget(s.pc, i)
                                  ELSE s.pc + 1, s.reg, s.mem, s.frames, s.left - 1)
           /\ i.op = "CALL_REG" => Machine!AfterInsn(p, s, i) =
                 Machine!Called(p, s, Machine!CallxTarget(s.reg[Machine!CallxRegister(p, i)]),
                                s.reg, s.left - 1)
           /\ i.op = "CALL_IMM" => Machine!AfterInsn(p, s, i) = Machine!AfterCallImm(p, s, i)
           /\ i.op = "EXIT" => Machine!AfterInsn(p, s, i) = Machine!AfterExit(p, s)
  <1>1. Machine!IsDataOp(p, i) => i.op \notin {"LD_DW_IMM", "JA", "JEQ", "CALL_REG", "CALL_IMM", "EXIT"}
    BY DEF Machine!IsDataOp, Machine!DataOps, Machine!ArithOps
  <1>2. Machine!IsUnsupported(p, i) =>
          /\ ~Machine!IsDataOp(p, i) /\ i.op \notin {"JA", "JEQ", "CALL_REG", "CALL_IMM", "EXIT"}
          /\ i.op # "LD_DW_IMM" \/ Machine!DisableLddw(p.version)
    BY DEF Machine!IsUnsupported
  <1>3. QED
    BY <1>1, <1>2 DEF Machine!AfterInsn


(* The machine's state, when it is running.                                *)
LEMMA StateFields ==
    ASSUME phase = "running", NEW s, s = Machine!State
    PROVE  /\ s.pc = ShownPc
           /\ s.reg = Observable(reg) /\ s.left = Left /\ s.final_pc = registers11
           /\ s.mem = (IF phase = "running" /\ Left = 0 THEN Dead ELSE mem)
           /\ s.frames = Observable([i \in 1..Len(host_stack) |->
                               [r6 |-> host_stack[i].r6, fp |-> host_stack[i].fp,
                                target_pc |-> host_stack[i].call_pc + 1]])
  BY DEF Machine!State

(* And one that calls.                                                     *)
LEMMA CallDetermined ==
    ASSUME phase = "running", NEW target, NEW r, NEW l, Machine!Call(target, r, l), Left # 0
    PROVE  Machine!State' = Machine!Called(program, Machine!State, target, r, l)
  <1>1. PICK s : s = Machine!State
    OBVIOUS
  <1> DEFINE bumped == [r EXCEPT ![Machine!FP] =
                           Machine!WrappingAdd(@, Machine!FrameBump(program.version))]
             pushed == Append(s.frames, Machine!Frame(r, s.pc + 1))
  <1>2. IF Len(s.frames) + 1 = MaxCallDepth
        THEN Machine!Halt(Machine!Err("CallDepthExceeded"), s.pc, l)
        ELSE IF ~Machine!IsPcInProgram(program, target)
        THEN Machine!Halt(Machine!Err("CallOutsideTextSegment"), s.pc, l)
        ELSE Machine!Continue(target, bumped, s.mem, pushed, l)
    BY <1>1, StateFields DEF Machine!Call
  <1>3. Machine!Called(program, s, target, r, l) =
          IF Len(s.frames) + 1 = MaxCallDepth
          THEN Machine!Halted(program, s, Machine!Err("CallDepthExceeded"), s.pc, l)
          ELSE IF ~Machine!IsPcInProgram(program, target)
          THEN Machine!Halted(program, s, Machine!Err("CallOutsideTextSegment"), s.pc, l)
          ELSE Machine!Going(s, target, bumped, s.mem, pushed, l)
    BY DEF Machine!Called
  <1> HIDE DEF bumped, pushed
  <1>4. CASE Len(s.frames) + 1 = MaxCallDepth
    <2>1. Machine!Halt(Machine!Err("CallDepthExceeded"), s.pc, l)
      BY <1>2, <1>4
    <2>2. QED
      BY <1>1, <1>3, <1>4, <2>1, HaltDetermined
  <1>5. CASE Len(s.frames) + 1 # MaxCallDepth /\ ~Machine!IsPcInProgram(program, target)
    <2>1. Machine!Halt(Machine!Err("CallOutsideTextSegment"), s.pc, l)
      BY <1>2, <1>5
    <2>2. QED
      BY <1>1, <1>3, <1>5, <2>1, HaltDetermined
  <1>6. CASE Len(s.frames) + 1 # MaxCallDepth /\ Machine!IsPcInProgram(program, target)
    <2>1. Machine!Continue(target, bumped, s.mem, pushed, l)
      BY <1>2, <1>6
    <2>2. QED
      BY <1>1, <1>3, <1>6, <2>1, ContinueDetermined
  <1>7. QED
    BY <1>4, <1>5, <1>6

(* Whenever it can pay for an instruction, that is what it executes.       *)
LEMMA InsnReached ==
    ASSUME phase = "running", NEW s, s = Machine!State, s.left \in Nat, s.left > 0,
           s.pc \in Nat, program.n \in Nat, s.pc < program.n
    PROVE  /\ Machine!After(program, s) = Machine!AfterInsn(program, s, program.text[s.pc])
           /\ Left # 0
  <1>1. s.left # 0 /\ ~(s.pc >= program.n)
    OBVIOUS
  <1>2. QED
    BY <1>1, StateFields DEF Machine!After

(* The types it takes.                                                     *)
Typed == phase = "running" /\ Left \in Nat /\ ShownPc \in Nat /\ program.n \in Nat

(* Every step of the running machine goes to the state After says.         *)
LEMMA Determined ==
    ASSUME Typed, Machine!Next
    PROVE  Machine!State' = Machine!After(program, Machine!State)
  <1>1. PICK s : s = Machine!State
    OBVIOUS
  <1>2. PICK i : i = program.text[s.pc]
    OBVIOUS
  <1>3. /\ phase = "running" /\ s.pc \in Nat /\ program.n \in Nat
        /\ s.left = Left /\ s.left \in Nat
    BY <1>1, StateFields DEF Typed
  <1>4. ASSUME s.left > 0, s.pc < program.n
        PROVE  Left # 0 /\ Machine!After(program, s) = Machine!AfterInsn(program, s, i)
    BY <1>1, <1>2, <1>3, <1>4, InsnReached
  <1>5. CASE Machine!Exceed
    <2>1. s.left = 0 /\ Machine!Halt(Machine!Exceeded, s.pc, 0)
      BY <1>1, <1>2, <1>3, <1>5, StateFields DEF Machine!Exceed, Machine!Exceeded
    <2>2. QED
      BY <1>1, <1>3, <2>1, HaltDetermined DEF Machine!After
  <1>6. CASE Machine!Overrun
    <2>1. /\ s.left > 0 /\ s.pc >= program.n
          /\ Machine!Halt(Machine!Err("ExecutionOverrun"), s.pc, s.left - 1)
      BY <1>1, <1>3, <1>6, StateFields DEF Machine!Overrun
    <2>2. s.left # 0
      BY <1>3, <2>1
    <2>3. QED
      BY <1>1, <1>3, <2>1, <2>2, HaltDetermined DEF Machine!After
  <1>7. CASE Machine!Data
    <2>1. /\ s.left > 0 /\ s.pc < program.n /\ Machine!IsDataOp(program, i)
          /\ IF Machine!Fault(i, s.reg) # "none"
             THEN Machine!Halt(Machine!Err(Machine!Fault(i, s.reg)), s.pc, s.left - 1)
             ELSE Machine!Continue(s.pc + 1, Machine!RegistersAfter(i, s.reg, s.mem),
                                   Machine!MemoryAfter(i, s.reg, s.mem), s.frames,
                                   s.left - 1)
      BY <1>1, <1>2, <1>3, <1>7, StateFields DEF Machine!Data
    <2>2. Machine!State' = Machine!AfterData(program, s, i)
      BY <1>1, <1>3, <1>4, <2>1, ContinueDetermined, HaltDetermined, SMTT(60) DEF Machine!AfterData
    <2>3. QED
      BY <1>1, <1>3, <1>4, <2>1, <2>2, InsnDetermined
  <1>8. CASE Machine!LoadDoubleWord
    <2>1. /\ s.left > 0 /\ s.pc < program.n
          /\ i.op = "LD_DW_IMM" /\ ~Machine!DisableLddw(program.version)
          /\ Machine!Continue(s.pc + 2, [s.reg EXCEPT ![i.dst] = Arith(i.op, @, i.imm)],
                              s.mem, s.frames, s.left - 1)
      BY <1>1, <1>2, <1>3, <1>8, StateFields DEF Machine!LoadDoubleWord, Machine!At
    <2> DEFINE r == [s.reg EXCEPT ![i.dst] = Arith(i.op, @, i.imm)]
    <2>2. Machine!AfterInsn(program, s, i)
            = Machine!Going(s, s.pc + 2, r, s.mem, s.frames, s.left - 1)
      BY <2>1, InsnDetermined
    <2>3. Machine!Continue(s.pc + 2, r, s.mem, s.frames, s.left - 1)
      BY <2>1
    <2> HIDE DEF r
    <2>4. Machine!State' = Machine!Going(s, s.pc + 2, r, s.mem, s.frames, s.left - 1)
      BY <1>1, <1>3, <2>3, ContinueDetermined
    <2>5. QED
      BY <1>1, <1>4, <2>1, <2>2, <2>4
  <1>9. CASE Machine!Jump
    <2>1. /\ s.left > 0 /\ s.pc < program.n /\ i.op \in {"JA", "JEQ"}
          /\ Machine!Continue(IF Machine!BranchTaken(i, s.reg)
                              THEN Machine!JumpTarget(s.pc, i) ELSE s.pc + 1,
                              s.reg, s.mem, s.frames, s.left - 1)
      BY <1>1, <1>2, <1>3, <1>9, StateFields DEF Machine!Jump, Machine!At
    <2> DEFINE to == IF Machine!BranchTaken(i, s.reg)
                     THEN Machine!JumpTarget(s.pc, i) ELSE s.pc + 1
    <2>2. Machine!AfterInsn(program, s, i)
            = Machine!Going(s, to, s.reg, s.mem, s.frames, s.left - 1)
      BY <2>1, InsnDetermined
    <2>3. Machine!Continue(to, s.reg, s.mem, s.frames, s.left - 1)
      BY <2>1
    <2> HIDE DEF to
    <2>4. Machine!State' = Machine!Going(s, to, s.reg, s.mem, s.frames, s.left - 1)
      BY <1>1, <1>3, <2>3, ContinueDetermined
    <2>5. QED
      BY <1>1, <1>4, <2>1, <2>2, <2>4
  <1>10. CASE Machine!CallReg
    <2>1. /\ s.left > 0 /\ s.pc < program.n /\ i.op = "CALL_REG"
          /\ Machine!Call(Machine!CallxTarget(s.reg[Machine!CallxRegister(program, i)]),
                          s.reg, s.left - 1)
      BY <1>1, <1>2, <1>3, <1>10, StateFields DEF Machine!CallReg, Machine!At
    <2>2. Left # 0
      BY <1>4, <2>1
    <2> DEFINE to == Machine!CallxTarget(s.reg[Machine!CallxRegister(program, i)])
    <2>3. Machine!State' = Machine!Called(program, s, to, s.reg, s.left - 1)
      BY <1>1, <1>3, <2>1, <2>2, CallDetermined
    <2>4. Machine!AfterInsn(program, s, i)
            = Machine!Called(program, s, to, s.reg, s.left - 1)
      BY <2>1, InsnDetermined
    <2>5. QED
      BY <1>1, <1>4, <2>1, <2>3, <2>4
  <1>11. CASE Machine!CallImm
    <2>1. s.left > 0 /\ s.pc < program.n /\ i.op = "CALL_IMM"
      BY <1>1, <1>2, <1>3, <1>11, StateFields DEF Machine!CallImm, Machine!At
    <2> DEFINE sys == Machine!ResolvesToSyscall(program, i)
               l == IF sys THEN Machine!Max0(s.left - 1 - SyscallCost(s.reg[Machine!R1]))
                    ELSE s.left - 1
               r == IF sys
                    THEN [s.reg EXCEPT ![Machine!R0] = SyscallValue(s.reg[Machine!R1])]
                    ELSE s.reg
    <2>2. IF sys /\ SyscallFails(s.reg[Machine!R1])
          THEN Machine!Halt(Machine!Err("SyscallError"), s.final_pc, l)
          ELSE IF Machine!ResolvesToFunction(program, s.pc, i)
          THEN Machine!Call(Machine!CallTarget(program, s.pc, i), r, l)
          ELSE IF sys THEN Machine!Continue(s.pc + 1, r, s.mem, s.frames, l)
          ELSE Machine!Halt(Machine!Err("UnsupportedInstruction"), s.pc, l)
      BY <1>1, <1>2, <1>3, <1>11, StateFields DEF Machine!CallImm
    <2>3. Machine!State' = Machine!AfterCallImm(program, s, i)
      <3>1. Machine!AfterCallImm(program, s, i) =
              IF sys /\ SyscallFails(s.reg[Machine!R1])
              THEN Machine!Halted(program, s, Machine!Err("SyscallError"), s.final_pc, l)
              ELSE IF Machine!ResolvesToFunction(program, s.pc, i)
              THEN Machine!Called(program, s, Machine!CallTarget(program, s.pc, i), r, l)
              ELSE IF sys THEN Machine!Going(s, s.pc + 1, r, s.mem, s.frames, l)
              ELSE Machine!Halted(program, s, Machine!Err("UnsupportedInstruction"), s.pc, l)
        BY DEF Machine!AfterCallImm
      <3>2. Left # 0
        BY <1>4, <2>1
      <3> HIDE DEF sys, r, l
      <3>3. CASE sys /\ SyscallFails(s.reg[Machine!R1])
        BY <1>1, <1>3, <2>2, <3>1, <3>2, <3>3, HaltDetermined
      <3>4. CASE /\ ~(sys /\ SyscallFails(s.reg[Machine!R1]))
                 /\ Machine!ResolvesToFunction(program, s.pc, i)
        BY <1>1, <1>3, <2>2, <3>1, <3>2, <3>4, CallDetermined
      <3>5. CASE /\ ~(sys /\ SyscallFails(s.reg[Machine!R1])) /\ sys
                 /\ ~Machine!ResolvesToFunction(program, s.pc, i)
        BY <1>1, <1>3, <2>2, <3>1, <3>5, ContinueDetermined
      <3>6. CASE ~sys /\ ~Machine!ResolvesToFunction(program, s.pc, i)
        BY <1>1, <1>3, <2>2, <3>1, <3>2, <3>6, HaltDetermined
      <3>7. QED
        BY <3>3, <3>4, <3>5, <3>6
    <2>4. Machine!AfterInsn(program, s, i) = Machine!AfterCallImm(program, s, i)
      BY <2>1, InsnDetermined
    <2>5. QED
      BY <1>1, <1>4, <2>1, <2>3, <2>4
  <1>12. CASE Machine!Exit
    <2>1. s.left > 0 /\ s.pc < program.n /\ i.op = "EXIT"
      BY <1>1, <1>2, <1>3, <1>12, StateFields DEF Machine!Exit, Machine!At
    <2> DEFINE top == s.frames[Len(s.frames)]
    <2>2. IF s.frames = << >>
          THEN Machine!Halt(Machine!Ok(s.reg[Machine!R0]), s.final_pc, s.left - 1)
          ELSE IF ~Machine!IsPcInProgram(program, top.target_pc)
          THEN Machine!Halt(Machine!Err("CallOutsideTextSegment"), s.pc, s.left - 1)
          ELSE Machine!Continue(top.target_pc,
                   [s.reg EXCEPT ![Machine!R6] = top.r6, ![Machine!FP] = top.fp],
                   s.mem, SubSeq(s.frames, 1, Len(s.frames) - 1), s.left - 1)
      BY <1>1, <1>2, <1>3, <1>12, StateFields DEF Machine!Exit
    <2>3. Machine!State' = Machine!AfterExit(program, s)
      <3> DEFINE back == [s.reg EXCEPT ![Machine!R6] = top.r6, ![Machine!FP] = top.fp]
                 f == SubSeq(s.frames, 1, Len(s.frames) - 1)
      <3>1. Machine!AfterExit(program, s) =
              IF s.frames = << >>
              THEN Machine!Halted(program, s, Machine!Ok(s.reg[Machine!R0]), s.final_pc,
                                  s.left - 1)
              ELSE IF ~Machine!IsPcInProgram(program, top.target_pc)
              THEN Machine!Halted(program, s, Machine!Err("CallOutsideTextSegment"), s.pc,
                                  s.left - 1)
              ELSE Machine!Going(s, top.target_pc, back, s.mem, f, s.left - 1)
        BY DEF Machine!AfterExit
      <3>2. Left # 0
        BY <1>4, <2>1
      <3>3. CASE s.frames = << >>
        BY <1>1, <1>3, <2>2, <3>1, <3>2, <3>3, HaltDetermined
      <3>4. CASE s.frames # << >> /\ ~Machine!IsPcInProgram(program, top.target_pc)
        BY <1>1, <1>3, <2>2, <3>1, <3>2, <3>4, HaltDetermined
      <3>5. CASE s.frames # << >> /\ Machine!IsPcInProgram(program, top.target_pc)
        <4>1. Machine!Continue(top.target_pc, back, s.mem, f, s.left - 1)
          BY <2>2, <3>5
        <4> HIDE DEF top, back, f
        <4>2. QED
          BY <1>1, <1>3, <3>1, <3>5, <4>1, ContinueDetermined
      <3>6. QED
        BY <3>3, <3>4, <3>5
    <2>4. Machine!AfterInsn(program, s, i) = Machine!AfterExit(program, s)
      BY <2>1, InsnDetermined
    <2>5. QED
      BY <1>1, <1>4, <2>1, <2>3, <2>4
  <1>13. CASE Machine!Unsupported
    <2>1. /\ s.left > 0 /\ s.pc < program.n /\ Machine!IsUnsupported(program, i)
          /\ Machine!Halt(Machine!Err("UnsupportedInstruction"), s.pc, s.left - 1)
      BY <1>1, <1>2, <1>3, <1>13, StateFields DEF Machine!Unsupported
    <2>2. Left # 0
      BY <1>4, <2>1
    <2> DEFINE e == Machine!Err("UnsupportedInstruction")
    <2>3. Machine!State' = Machine!Halted(program, s, e, s.pc, s.left - 1)
      BY <1>1, <1>3, <2>1, <2>2, HaltDetermined
    <2>4. Machine!AfterInsn(program, s, i) = Machine!Halted(program, s, e, s.pc, s.left - 1)
      BY <2>1, InsnDetermined
    <2>5. QED
      BY <1>1, <1>4, <2>1, <2>3, <2>4
  <1>14. ~Machine!Start
    BY <1>3 DEF Machine!Start
  <1>15. QED
    BY <1>5, <1>6, <1>7, <1>8, <1>9, <1>10, <1>11, <1>12, <1>13, <1>14 DEF Machine!Next

(* What a step of the emitted code leaves alone.                           *)
LEMMA RunKeeps ==
    ASSUME Run
    PROVE  /\ phase = "running" /\ phase' \in {"running", "stopped"}
           /\ runs' = runs /\ initial_insn_count' = initial_insn_count
           /\ program' = program /\ leftover' = leftover
  <1>1. phase = "running" /\ program' = program
    BY DEF Run, RunExceeded, RunBumper, RunArithmetic, RunQuotient, RunLoadStore,
           RunLoadDoubleWord, RunJump, RunCallReg, RunSyscall, RunCallImm, RunExit,
           RunUnsupported, Fetch
  <1>2. /\ runs' = runs /\ initial_insn_count' = initial_insn_count
        /\ leftover' = leftover
    BY DEF Run, RunExceeded, RunBumper, RunArithmetic, RunQuotient, RunLoadStore,
           RunLoadDoubleWord, RunJump, RunCallReg, RunSyscall, RunCallImm, RunExit,
           RunUnsupported, Fetch, returnVars
  <1>3. phase' \in {"running", "stopped"}
    <2>1. ASSUME NEW m PROVE ThrowExceeded(m) => phase' = "stopped"
      BY DEF ThrowExceeded, Epilogue
    <2>2. ASSUME NEW e, NEW m, NEW at PROVE ThrowException(e, m, at) => phase' = "stopped"
      BY <2>1 DEF ThrowException, Epilogue
    <2>3. ASSUME NEW to, NEW m PROVE GoOn(to, m) => phase' = "running"
      BY <1>1 DEF GoOn
    <2>4. ASSUME NEW m, NEW r, NEW res, NEW due, NEW target
          PROVE  InternalCall(m, r, res, due, target) => phase' \in {"running", "stopped"}
      BY <1>1, <2>1, <2>2 DEF InternalCall
    <2>5. CASE RunExceeded \/ RunBumper \/ RunUnsupported
      BY <2>1, <2>2, <2>5 DEF RunExceeded, RunBumper, RunUnsupported
    <2>6. CASE RunArithmetic \/ RunLoadDoubleWord \/ RunJump
      BY <2>3, <2>6 DEF RunArithmetic, RunLoadDoubleWord, RunJump
    <2>7. CASE RunQuotient \/ RunLoadStore
      BY <2>2, <2>3, <2>7 DEF RunQuotient, RunLoadStore, TranslateMemoryAddress
    <2>8. CASE RunCallReg \/ RunSyscall \/ RunCallImm
      BY <1>1, <2>2, <2>4, <2>8 DEF RunCallReg, RunSyscall, RunCallImm
    <2>9. CASE RunExit
      BY <2>3, <2>9 DEF RunExit, Epilogue
    <2>10. QED
      BY <2>5, <2>6, <2>7, <2>8, <2>9 DEF Run
  <1>4. QED
    BY <1>1, <1>2, <1>3

(* A step of the emitted code goes to the next state of the machine, or    *)
(* runs on past the budget.                                                *)
LEMMA RunDetermined ==
    ASSUME JitConfig, JitInv, ReturnsInside(program), leftover = 0, Run
    PROVE  \/ Machine!State' = Machine!After(program, Machine!State)
           \/ Machine!State' = Machine!State /\ Left = 0 /\ phase' = "running"
  <1>1. phase = "running"
    BY DEF Run, RunExceeded, RunBumper, RunArithmetic, RunQuotient, RunLoadStore,
           RunLoadDoubleWord, RunJump, RunCallReg, RunSyscall, RunCallImm, RunExit,
           RunUnsupported, Fetch
  <1>2. Typed
    <2>1. /\ pc \in Nat /\ meter \in Nat /\ program.n \in Nat
      BY <1>1, MeterFits
    <2>2. SaturatingSub(meter, pc) \in Nat
      BY <2>1 DEF SaturatingSub
    <2>3. QED
      BY <1>1, <2>1, <2>2 DEF Typed, Left, ShownPc
  <1>3. Machine!Next \/ Waits
    BY RunImplements, RunKeeps DEF Implements
  <1>4. CASE Machine!Next
    BY <1>2, <1>4, Determined
  <1>5. CASE Waits
    BY <1>1, <1>5 DEF Waits, Machine!vars, Machine!State
  <1>6. QED
    BY <1>3, <1>4, <1>5

(* It traces the instruction it executes; only one that ends the execution *)
(* is ever traced twice, or not at all.                                    *)
LEMMA RunTraces ==
    ASSUME JitConfig, JitInv, Run
    PROVE  /\ phase = "running"
           /\ \/ register_trace' = Append(register_trace, [pc |-> pc, reg |-> reg])
              \/ /\ phase' = "stopped"
                 /\ register_trace' = register_trace \o
                      << [pc |-> pc, reg |-> reg], [pc |-> pc, reg |-> reg] >>
              \/ /\ phase' = "stopped" /\ (Left > 0 => pc >= program.n)
                 /\ register_trace' = register_trace
  <1>1. CASE RunExceeded
    <2>1. phase = "running" /\ meter <= pc /\ phase' = "stopped"
      BY <1>1 DEF RunExceeded, ThrowExceeded, Epilogue
    <2>2. Left = 0
      BY <2>1, Spent
    <2>3. QED
      BY <1>1, <2>1, <2>2 DEF RunExceeded, Trace
  <1>2. CASE RunBumper
    BY <1>2 DEF RunBumper, ThrowExceeded, ThrowException, Epilogue
  <1>3. CASE RunCallImm
    BY <1>3 DEF RunCallImm, Fetch, Trace, ThrowExceeded, ThrowException, Epilogue
  <1>4. CASE Fetch /\ Trace(pc)
    BY <1>4 DEF Fetch, Trace
  <1>5. QED
    BY <1>1, <1>2, <1>3, <1>4 DEF Run, RunArithmetic, RunQuotient, RunLoadStore,
       RunLoadDoubleWord, RunJump, RunCallReg, RunSyscall, RunExit, RunUnsupported

(* An execution starts with the registers of a new VM.                     *)
LEMMA StartDetermined ==
    ASSUME JitConfig, JitInv, NEW budget \in Budgets, ExecuteProgram(budget)
    PROVE  /\ Machine!State' = Machine!Started(program, StartRegisters, mem, budget, result)
           /\ phase \in {"idle", "done"} /\ phase' = "running" /\ runs' = runs + 1
           /\ initial_insn_count' = budget /\ register_trace' = register_trace
  <1>1. /\ phase \in {"idle", "done"} /\ phase' = "running"
        /\ program' = program /\ registers11' = program.entry
        /\ reg' = StartRegisters /\ pc' = program.entry
        /\ UNCHANGED <<callVars, mem, result>>
    BY DEF ExecuteProgram
  <1>2. /\ program.n \in Nat \ {0} /\ program.entry \in 0..program.n-1
        /\ budget \in Nat /\ budget + program.n < MeterWord /\ MeterWord \in Nat
    BY ProgramFacts DEF JitInv, Types
  <1> DEFINE at == program.entry
             m == at + budget
  <1>3. meter' = m
    <2>1. /\ budget + program.entry \in Nat /\ budget + program.entry < MeterWord
          /\ budget + program.entry = program.entry + budget
      BY <1>2
    <2>2. QED
      BY <2>1, Unwrapped DEF ExecuteProgram
  <1>4. host_stack' = << >>
    BY <1>1 DEF JitInv, Balanced, callVars
  <1>5. SaturatingSub(m, at) = budget /\ (IF m <= at THEN m ELSE at) = at
    BY <1>2 DEF SaturatingSub
  <1> HIDE DEF m
  <1>6. Left' = budget /\ ShownPc' = at
    BY <1>1, <1>3, <1>5 DEF Left, ShownPc
  <1>7. Stack' = << >>
    BY <1>4 DEF Stack
  <1>8. /\ Observable(reg)' = Machine!Visible(budget, StartRegisters)
        /\ Observable(Stack)' = Machine!Visible(budget, << >>)
        /\ (IF phase' = "running" /\ Left' = 0 THEN Dead ELSE mem')
              = Machine!Visible(budget, mem)
    <2>1. CASE budget = 0
      BY <1>1, <1>6, <2>1 DEF Observable, Machine!Visible
    <2>2. CASE budget # 0
      <3>1. Left' > 0 /\ budget > 0
        BY <1>2, <1>6, <2>2
      <3>2. QED
        BY <1>1, <1>6, <1>7, <2>2, <3>1 DEF Observable, Machine!Visible
    <2>3. QED
      BY <2>1, <2>2
  <1>9. QED
    BY <1>1, <1>6, <1>8 DEF ExecuteProgram, Machine!State, Machine!Started, Stack

(* What execute_program does after the emitted code.                       *)
LEMMA FinishDetermined ==
    ASSUME JitConfig, JitInv, Finish
    PROVE  /\ Machine!State' = Machine!State
           /\ phase = "stopped" /\ phase' = "done" /\ runs' = runs
           /\ register_trace' = register_trace /\ initial_insn_count' = initial_insn_count
           /\ instruction_count' = SaturatingSub(initial_insn_count, remaining')
  <1>1. UNCHANGED Machine!vars
    BY FinishWaits DEF Waits
  <1>2. QED
    BY <1>1 DEF Finish, Machine!vars, Machine!State

(* Compiled code has come to the state h[k] of an execution, and traced    *)
(* every instruction on the way; past its budget it may trace more.        *)
History(h, k) ==
    /\ h[k] = Machine!State
    /\ \A i \in 1..k : h[i - 1].left > 0 /\ h[i - 1].pc < program.n =>
          /\ i <= Len(register_trace)
          /\ register_trace[i] = [pc |-> h[i - 1].pc, reg |-> h[i - 1].reg]
    /\ phase = "running" /\ Left > 0 => Len(register_trace) = k

(* The trace grows at its end.                                             *)
LEMMA TraceGrows ==
    ASSUME NEW S, NEW t \in Seq(S), NEW e \in S, NEW u,
           u = Append(t, e) \/ u = t \o <<e, e>> \/ u = t
    PROVE  /\ Len(t) \in Nat /\ Len(u) \in Nat /\ u \in Seq(S)
           /\ Len(u) >= Len(t) /\ \A i \in 1..Len(t) : u[i] = t[i]
           /\ u = t \/ (Len(t) + 1 <= Len(u) /\ u[Len(t) + 1] = e)
  <1>1. CASE u = t
    BY <1>1
  <1>2. CASE u = Append(t, e)
    BY <1>2
  <1>3. CASE u = t \o <<e, e>>
    <2>1. <<e, e>> \in Seq(S) /\ Len(<<e, e>>) = 2 /\ <<e, e>>[1] = e
      OBVIOUS
    <2>2. Len(u) = Len(t) + 2
      BY <1>3, <2>1
    <2>3. \A i \in 1..Len(t) : u[i] = t[i]
      BY <1>3, <2>1
    <2>4. u[Len(t) + 1] = e
      BY <1>3, <2>1
    <2>5. QED
      BY <2>2, <2>3, <2>4
  <1>4. QED
    BY <1>1, <1>2, <1>3

(* A step of the emitted code goes one state further, or past the budget.  *)
LEMMA RunHistory ==
    ASSUME JitConfig, JitInv, ReturnsInside(program), leftover = 0, Run,
           NEW k \in Nat, NEW h,
           register_trace \in Seq([pc : Nat, reg : [Registers -> Words]]),
           History(h, k), h[k + 1] = Machine!After(program, h[k])
    PROVE  History(h, k)' \/ History(h, k + 1)'
  <1> DEFINE e == [pc |-> pc, reg |-> reg]
             S == [pc : Nat, reg : [Registers -> Words]]
             t == register_trace
             u == register_trace'
             Traced(i, x) == h[i - 1].left > 0 /\ h[i - 1].pc < program.n =>
                /\ i <= Len(x)
                /\ x[i] = [pc |-> h[i - 1].pc, reg |-> h[i - 1].reg]
  <1>1. /\ phase = "running" /\ phase' \in {"running", "stopped"} /\ program' = program
    BY RunKeeps
  <1>2. /\ h[k] = Machine!State
        /\ \A i \in 1..k : Traced(i, t)
        /\ Left > 0 => Len(t) = k
    BY <1>1 DEF History
  <1>3. pc \in Nat /\ meter \in Nat /\ program.n \in Nat /\ e \in S
    BY <1>1, MeterFits DEF JitInv, Types
  <1>4. h[k].left = Left /\ h[k].pc = ShownPc /\ h[k].reg = Observable(reg)
    BY <1>1, <1>2, StateFields
  <1>5. ASSUME Left > 0 PROVE h[k].pc = pc /\ h[k].reg = reg
    <2>1. meter > pc
      BY <1>1, <1>3, <1>5, SMTT(60) DEF Left, SaturatingSub
    <2>2. ~(meter <= pc)
      BY <1>3, <2>1
    <2>3. QED
      BY <1>1, <1>4, <1>5, <2>2 DEF ShownPc, Observable
  <1>6. \/ u = Append(t, e)
        \/ phase' = "stopped" /\ u = t \o <<e, e>>
        \/ phase' = "stopped" /\ (Left > 0 => pc >= program.n) /\ u = t
    BY RunTraces
  <1>7. /\ Len(t) \in Nat /\ Len(u) \in Nat
        /\ Len(u) >= Len(t) /\ \A i \in 1..Len(t) : u[i] = t[i]
        /\ u = t \/ (Len(t) + 1 <= Len(u) /\ u[Len(t) + 1] = e)
    <2>1. e \in S /\ t \in Seq(S)
      BY <1>3
    <2>2. u = Append(t, e) \/ u = t \o <<e, e>> \/ u = t
      BY <1>6
    <2> HIDE DEF e, S, t, u
    <2>3. QED
      BY <2>1, <2>2, TraceGrows, SMTT(60)
  <1>8. \A i \in 1..k : Traced(i, u)
    <2> HIDE DEF t, u
    <2>1. ASSUME NEW i \in 1..k, h[i - 1].left > 0, h[i - 1].pc < program.n
          PROVE  /\ i <= Len(u)
                 /\ u[i] = [pc |-> h[i - 1].pc, reg |-> h[i - 1].reg]
      <3>1. i <= Len(t) /\ t[i] = [pc |-> h[i - 1].pc, reg |-> h[i - 1].reg]
        BY <1>2, <2>1
      <3>2. i \in 1..Len(t) /\ i <= Len(u)
        BY <1>7, <3>1
      <3>3. QED
        BY <1>7, <3>1, <3>2
    <2>2. QED
      BY <2>1
  <1>9. CASE Machine!State' = Machine!State /\ Left = 0 /\ phase' = "running"
    <2>1. h[k] = Machine!State'
      BY <1>2, <1>9
    <2>2. Left' = 0
      BY <1>9 DEF Machine!State
    <2>3. History(h, k)'
      BY <1>1, <1>8, <2>1, <2>2 DEF History
    <2>4. QED
      BY <2>3
  <1>10. CASE Machine!State' = Machine!After(program, Machine!State)
    <2>1. h[k + 1] = Machine!State'
      BY <1>2, <1>10
    <2>2. ASSUME phase' = "running", Left' > 0 PROVE Len(u) = k + 1
      <3>1. Left > 0
        <4>1. Left \in Nat
          BY <1>1, <1>3, SMTT(60) DEF Left, SaturatingSub
        <4>2. CASE Left = 0
          <5>1. Machine!After(program, h[k]).running = FALSE
            BY <1>4, <4>2 DEF Machine!After, Machine!Halted
          <5>2. (Machine!State').running = TRUE
            BY <2>2 DEF Machine!State
          <5>3. QED
            BY <1>2, <1>10, <5>1, <5>2
        <4>3. QED
          BY <4>1, <4>2
      <3>2. u = Append(t, e) /\ Len(t) = k
        BY <1>2, <1>6, <2>2, <3>1
      <3>3. QED
        BY <3>2
    <2>3. Traced(k + 1, u)
      <3>1. SUFFICES ASSUME h[(k + 1) - 1].left > 0, h[(k + 1) - 1].pc < program.n
                     PROVE  /\ k + 1 <= Len(u)
                            /\ u[k + 1] = [pc |-> h[(k + 1) - 1].pc, reg |-> h[(k + 1) - 1].reg]
        OBVIOUS
      <3>2. (k + 1) - 1 = k
        OBVIOUS
      <3>3. Left > 0 /\ h[k].pc = pc /\ h[k].reg = reg /\ pc < program.n
        BY <1>4, <1>5, <3>1, <3>2
      <3>4. Len(t) = k
        BY <1>2, <3>3
      <3>5. u # t
        <4>1. ~(pc >= program.n)
          BY <1>3, <3>3
        <4>2. u = Append(t, e) \/ u = t \o <<e, e>>
          BY <1>6, <3>3, <4>1
        <4>3. e \in S /\ t \in Seq(S)
          BY <1>3
        <4> HIDE DEF e, S, t, u
        <4>4. <<e, e>> \in Seq(S) /\ Len(<<e, e>>) = 2
          BY <4>3, SMTT(60)
        <4>5. Len(u) # Len(t)
          BY <4>2, <4>3, <4>4
        <4>6. QED
          BY <4>5
      <3>6. k + 1 <= Len(u) /\ u[k + 1] = e
        BY <1>7, <3>4, <3>5
      <3>7. QED
        BY <3>2, <3>3, <3>6
    <2>4. \A i \in 1..k+1 : Traced(i, u)
      <3>1. \A i \in 1..k+1 : i \in 1..k \/ i = k + 1
        OBVIOUS
      <3>2. QED
        BY <1>8, <2>3, <3>1
    <2>5. History(h, k + 1)'
      BY <1>1, <2>1, <2>2, <2>4 DEF History
    <2>6. QED
      BY <2>5
  <1>11. QED
    BY <1>9, <1>10, RunDetermined

(* It starts where the execution starts.                                   *)
LEMMA StartHistory ==
    ASSUME JitConfig, JitInv, NEW budget \in Budgets, ExecuteProgram(budget),
           register_trace = << >>, NEW h,
           h[0] = Machine!Started(program, StartRegisters, mem, budget, result)
    PROVE  History(h, 0)'
  <1>1. /\ Machine!State' = h[0] /\ register_trace' = << >>
    BY StartDetermined
  <1>2. Len(register_trace') = 0 /\ 1..0 = {}
    BY <1>1
  <1>3. QED
    BY <1>1, <1>2 DEF History

(* It ends where it stopped.                                               *)
LEMMA FinishHistory ==
    ASSUME JitConfig, JitInv, Finish, NEW k \in Nat, NEW h, History(h, k)
    PROVE  History(h, k)'
  <1>1. /\ Machine!State' = Machine!State /\ phase' = "done" /\ program' = program
        /\ register_trace' = register_trace
    BY FinishDetermined DEF Finish
  <1>2. QED
    BY <1>1 DEF History

(* Nothing else disturbs it.                                               *)
LEMMA HistoryStays ==
    ASSUME UNCHANGED vars, NEW k, NEW h, History(h, k)
    PROVE  History(h, k)'
  <1>1. UNCHANGED <<program, phase, register_trace>>
    BY DEF vars
  <1>2. UNCHANGED <<reg, mem, result, host_stack, program_result, registers11>>
    BY DEF vars, callVars, returnVars
  <1>3. Left' = Left /\ ShownPc' = ShownPc
    BY MachineStays DEF Machine!vars
  <1>4. Machine!State' = Machine!State
    BY <1>1, <1>2, <1>3 DEF Observable, Machine!State
  <1>5. QED
    BY <1>1, <1>3, <1>4 DEF History

(* The states of the machine in the first execution of a new VM, from the  *)
(* first to the last.                                                      *)
Begun == Machine!Started(program, StartRegisters, 0, initial_insn_count, Ok(0))
Course(h, n) ==
    /\ h[0] = Begun
    /\ \A i \in 0..n-1 : h[i].running = TRUE /\ h[i + 1] = Machine!After(program, h[i])
    /\ h[n].running = FALSE

(* A VM that has executed nothing is as EbpfVm::new made it; the first     *)
(* execution follows the course the machine would take; and what an        *)
(* execution has cost is what is missing from its budget.                  *)
FirstRun ==
    /\ runs \in Nat /\ (phase \in {"compiling", "idle"} <=> runs = 0)
    /\ runs = 0 => /\ mem = 0 /\ register_trace = << >> /\ result = Ok(0)
                   /\ call_depth = 0
    /\ runs = 1 => leftover = 0
    /\ runs = 1 /\ ReturnsInside(program) =>
          \A n \in Nat : \A h : Course(h, n) => \E k \in 0..n : History(h, k)
    /\ register_trace \in Seq([pc : Nat, reg : [Registers -> Words]])
    /\ phase = "done" => instruction_count = SaturatingSub(initial_insn_count, remaining)

LEMMA FirstRunInit == Init => FirstRun
  BY DEF Init, New, FirstRun

(* The course is given by the program and the budget.                      *)
LEMMA CourseStays ==
    ASSUME program' = program, initial_insn_count' = initial_insn_count, NEW h, NEW n
    PROVE  Course(h, n)' <=> Course(h, n)
  <1>1. StartRegisters' = StartRegisters
    BY DEF StartRegisters
  <1>2. Begun' = Begun
    BY <1>1 DEF Begun
  <1>3. QED
    BY <1>2 DEF Course

(* Every step keeps it.                                                    *)
LEMMA FirstRunStep == JitConfig /\ JitInv /\ FirstRun /\ [Next]_vars => FirstRun'
  <1> SUFFICES ASSUME JitConfig, JitInv, FirstRun, [Next]_vars PROVE FirstRun'
    OBVIOUS
  <1>1. CASE UNCHANGED vars
    <2>1. UNCHANGED <<runs, phase, mem, register_trace, result, program, call_depth,
                      leftover, initial_insn_count, instruction_count, remaining>>
      BY <1>1 DEF vars, callVars, meterVars, returnVars
    <2>2. runs = 1 /\ ReturnsInside(program) =>
             \A n \in Nat : \A h : Course(h, n)' => \E k \in 0..n : History(h, k)'
      BY <1>1, <2>1, CourseStays, HistoryStays DEF FirstRun
    <2>3. QED
      BY <2>1, <2>2 DEF FirstRun
  <1>2. CASE Compile
    <2>1. /\ phase = "compiling" /\ phase' \in {"compiling", "idle"} /\ runs' = runs
          /\ UNCHANGED <<mem, register_trace, result, call_depth, leftover>>
      BY <1>2 DEF Compile, EmitInstruction, EmitBumper, callVars, returnVars
    <2>2. QED
      BY <2>1 DEF FirstRun
  <1>3. ASSUME NEW budget \in Budgets, ExecuteProgram(budget) PROVE FirstRun'
    <2>1. /\ phase' = "running" /\ runs' = runs + 1 /\ initial_insn_count' = budget
          /\ register_trace' = register_trace /\ program' = program
          /\ leftover' = call_depth
      BY <1>3, StartDetermined DEF ExecuteProgram
    <2>2. /\ runs \in Nat /\ runs' \in Nat /\ runs' # 0 /\ (runs' = 1 => runs = 0)
          /\ runs' = 1 => leftover' = 0
      BY <2>1 DEF FirstRun
    <2>3. ASSUME runs' = 1, NEW n \in Nat, NEW h, Course(h, n)'
          PROVE  \E k \in 0..n : History(h, k)'
      <3>1. mem = 0 /\ register_trace = << >> /\ result = Ok(0)
        BY <2>2, <2>3 DEF FirstRun
      <3>2. StartRegisters' = StartRegisters
        BY <2>1 DEF StartRegisters
      <3>3. h[0] = Machine!Started(program, StartRegisters, mem, budget, result)
        BY <2>1, <2>3, <3>1, <3>2 DEF Course, Begun
      <3>4. History(h, 0)'
        BY <1>3, <3>1, <3>3, StartHistory
      <3>5. 0 \in 0..n
        OBVIOUS
      <3>6. QED
        BY <3>4, <3>5
    <2>4. QED
      BY <2>1, <2>2, <2>3 DEF FirstRun
  <1>4. CASE Run
    <2>1. /\ phase = "running" /\ phase' \in {"running", "stopped"} /\ runs' = runs
          /\ initial_insn_count' = initial_insn_count /\ program' = program
          /\ leftover' = leftover /\ runs # 0
      BY <1>4, RunKeeps DEF FirstRun
    <2>2. ASSUME runs = 1, ReturnsInside(program), NEW n \in Nat, NEW h, Course(h, n)'
          PROVE  \E k \in 0..n : History(h, k)'
      <3>1. Course(h, n)
        BY <2>1, <2>2, CourseStays
      <3>2. PICK k \in 0..n : History(h, k)
        BY <2>2, <3>1 DEF FirstRun
      <3>3. k # n
        <4>1. Machine!State.running = (phase = "running")
          BY DEF Machine!State
        <4>2. (phase = "running") = TRUE
          BY <2>1
        <4>3. h[k] = Machine!State
          BY <3>2 DEF History
        <4>4. QED
          BY <3>1, <4>1, <4>2, <4>3 DEF Course
      <3>4. k \in Nat /\ k \in 0..n-1 /\ k + 1 \in 0..n
        BY <3>3
      <3>5. h[k + 1] = Machine!After(program, h[k])
        BY <3>1, <3>4 DEF Course
      <3>6. History(h, k)' \/ History(h, k + 1)'
        BY <1>4, <2>2, <3>2, <3>4, <3>5, RunHistory DEF FirstRun
      <3>7. QED
        BY <3>4, <3>6
    <2>3. register_trace' \in Seq([pc : Nat, reg : [Registers -> Words]])
      <3> DEFINE E == [pc : Nat, reg : [Registers -> Words]]
                 e == [pc |-> pc, reg |-> reg]
      <3>1. pc \in Nat
        BY <2>1, MeterFits
      <3>2. e \in E /\ register_trace \in Seq(E)
        BY <3>1 DEF FirstRun, JitInv, Types
      <3>3. \/ register_trace' = Append(register_trace, e)
            \/ register_trace' = register_trace \o <<e, e>>
            \/ register_trace' = register_trace
        BY <1>4, RunTraces
      <3> HIDE DEF E, e
      <3>4. register_trace' \in Seq(E)
        BY <3>2, <3>3, TraceGrows
      <3>5. QED
        BY <3>4 DEF E
    <2>4. QED
      BY <2>1, <2>2, <2>3 DEF FirstRun, ReturnsInside
  <1>5. CASE Finish
    <2>1. /\ phase = "stopped" /\ phase' = "done" /\ runs' = runs /\ program' = program
          /\ register_trace' = register_trace /\ initial_insn_count' = initial_insn_count
          /\ instruction_count' = SaturatingSub(initial_insn_count', remaining')
          /\ leftover' = leftover /\ runs # 0
      BY <1>5, FinishDetermined DEF Finish, FirstRun
    <2>2. runs = 1 /\ ReturnsInside(program) =>
             \A n \in Nat : \A h : Course(h, n)' => \E k \in 0..n : History(h, k)'
      BY <1>5, <2>1, CourseStays, FinishHistory, SMTT(60) DEF FirstRun
    <2>3. QED
      BY <2>1, <2>2 DEF FirstRun, ReturnsInside, SaturatingSub
  <1>6. QED
    BY <1>1, <1>2, <1>3, <1>4, <1>5 DEF Next

(* Only the start of an execution is counted.                              *)
LEMMA RunsCounted ==
    ASSUME Compile \/ Run \/ Finish
    PROVE  runs' = runs /\ initial_insn_count' = initial_insn_count
  BY RunKeeps DEF Compile, EmitInstruction, EmitBumper, Finish, returnVars

(* What can be seen of an execution that is over.                          *)
LEMMA DoneState ==
    ASSUME phase = "done", NEW s, s = Machine!State
    PROVE  /\ s.running = FALSE /\ s.result = result /\ s.left = remaining
           /\ s.final_pc = registers11
           /\ result # Err("ExceededMaxInstructions") => s.mem = mem
  <1>1. Machine!Exceeded = Err("ExceededMaxInstructions")
    BY DEF Machine!Exceeded, Machine!Err, Err
  <1>2. s.running = FALSE
    <2>1. s.running = (phase = "running")
      BY DEF Machine!State
    <2>2. (phase = "running") = FALSE
      OBVIOUS
    <2>3. QED
      BY <2>1, <2>2
  <1>3. s.result = result /\ s.left = remaining /\ s.final_pc = registers11
    BY DEF Machine!State, Left
  <1>4. result # Err("ExceededMaxInstructions") => s.mem = mem
    BY <1>1 DEF Machine!State
  <1>5. QED
    BY <1>2, <1>3, <1>4

(* When it is over it has come to the end of its course.                   *)
LEMMA CourseEnds ==
    ASSUME FirstRun, runs = 1, phase = "done", ReturnsInside(program),
           NEW n \in Nat, NEW h, Course(h, n)
    PROVE  History(h, n)
  <1>1. PICK k \in 0..n : History(h, k)
    BY DEF FirstRun
  <1>2. h[k].running = FALSE
    BY <1>1, DoneState DEF History
  <1>3. CASE k # n
    <2>1. k \in 0..n-1
      BY <1>3
    <2>2. h[k].running = TRUE
      BY <2>1 DEF Course
    <2>3. QED
      BY <1>2, <2>2
  <1>4. QED
    BY <1>1, <1>3

=============================================================================
