----------------------------- MODULE Execution -----------------------------
(***************************************************************************)
(* What executing a program means, whichever engine does it: every         *)
(* instruction costs one unit of the budget, a syscall costs what it       *)
(* consumes on top, and an execution whose budget is used up ends with     *)
(* ExceededMaxInstructions at the instruction it could not pay for.  The   *)
(* interpreter and the code the JIT compiler emits both implement this     *)
(* specification.                                                          *)
(*                                                                         *)
(* Once the budget is used up nothing the machine still computes can be    *)
(* observed but the error, so registers, memory and frames are Dead from   *)
(* then on: an engine may go on for a while before it notices.             *)
(***************************************************************************)
EXTENDS Sbpf, Sequences

CONSTANT Dead, Budgets

VARIABLES
    program,    \* the program being executed
    running,    \* whether an execution is under way
    pc,         \* the next instruction
    reg, mem,   \* registers and memory
    frames,     \* what the active calls will restore, innermost last
    left,       \* what is left of the budget
    result,     \* outcome of the last execution
    final_pc    \* vm.registers[11] after the last execution

vars == <<program, running, pc, reg, mem, frames, left, result, final_pc>>

Frame(r, target) == [r6 |-> r[R6], fp |-> r[FP], target_pc |-> target]

Max0(x) == IF x < 0 THEN 0 ELSE x

Visible(l, x) == IF l = 0 THEN Dead ELSE x

(* Goes on at `to' with `l' units left.                                    *)
Continue(to, r, m, f, l) ==
    /\ pc' = to
    /\ left' = l
    /\ reg' = Visible(l, r) /\ mem' = Visible(l, m) /\ frames' = Visible(l, f)
    /\ UNCHANGED <<program, running, result, final_pc>>

(* Ends the execution; `at' is the pc it reports.                          *)
Halt(r, at, l) ==
    /\ running' = FALSE
    /\ result' = r /\ final_pc' = at /\ left' = l
    /\ reg' = Dead /\ frames' = Dead
    /\ pc' = program.entry
    /\ mem' \in IF left = 0 THEN Words ELSE {mem}
    /\ UNCHANGED program

(* Calls the function at `target' with the registers `r'.                  *)
Call(target, r, l) ==
    LET bumped == [r EXCEPT ![FP] = WrappingAdd(@, FrameBump(program.version))]
    IN  IF Len(frames) + 1 = MaxCallDepth THEN Halt(Err("CallDepthExceeded"), pc, l)
        ELSE IF ~IsPcInProgram(program, target)
        THEN Halt(Err("CallOutsideTextSegment"), pc, l)
        ELSE Continue(target, bumped, mem, Append(frames, Frame(r, pc + 1)), l)

Init ==
    /\ IsProgram(program)
    /\ running = FALSE
    /\ pc = program.entry
    /\ reg = Dead /\ mem \in Words /\ frames = Dead
    /\ left = 0
    /\ result = Ok(0) /\ final_pc = 0

(* A later execution may start with the arguments of an earlier syscall.   *)
Start ==
    /\ ~running
    /\ running' = TRUE
    /\ pc' = program.entry /\ final_pc' = program.entry
    /\ \E l \in Budgets :
        /\ left' = l
        /\ IF l = 0 THEN reg' = Dead
           ELSE /\ reg' \in [Registers -> Words]
                /\ reg'[FP] = InitialFramePointer(program.version)
                /\ reg'[R6] = 0
        /\ mem' = Visible(l, mem)
        /\ frames' = Visible(l, << >>)
    /\ UNCHANGED <<program, result>>

Exceed ==
    /\ running /\ left = 0
    /\ Halt(Err("ExceededMaxInstructions"), pc, 0)

Overrun ==
    /\ running /\ left > 0 /\ pc >= program.n
    /\ Halt(Err("ExecutionOverrun"), pc, left - 1)

(* The steps below execute the instruction at pc.                          *)
At(op) ==
    /\ running /\ left > 0 /\ pc < program.n
    /\ program.text[pc].op = op

Data ==
    /\ running /\ left > 0 /\ pc < program.n
    /\ LET insn == program.text[pc]
       IN  /\ IsDataOp(program, insn)
           /\ IF Fault(insn, reg) # "none"
              THEN Halt(Err(Fault(insn, reg)), pc, left - 1)
              ELSE Continue(pc + 1, RegistersAfter(insn, reg, mem),
                            MemoryAfter(insn, reg, mem), frames, left - 1)

LoadDoubleWord ==
    /\ At("LD_DW_IMM") /\ ~DisableLddw(program.version)
    /\ LET insn == program.text[pc]
       IN  Continue(pc + 2, [reg EXCEPT ![insn.dst] = Arith(insn.op, @, insn.imm)],
                    mem, frames, left - 1)

Jump ==
    /\ At("JA") \/ At("JEQ")
    /\ LET insn == program.text[pc]
       IN  Continue(IF BranchTaken(insn, reg) THEN JumpTarget(pc, insn) ELSE pc + 1,
                    reg, mem, frames, left - 1)

CallReg ==
    /\ At("CALL_REG")
    /\ LET address == reg[CallxRegister(program, program.text[pc])]
       IN  Call(CallxTarget(address), reg, left - 1)

(* A key may name a syscall and a function: then both are called.          *)
CallImm ==
    /\ At("CALL_IMM")
    /\ LET insn == program.text[pc]
           sys  == ResolvesToSyscall(program, insn)
           fn   == ResolvesToFunction(program, pc, insn)
           l    == IF sys THEN Max0(left - 1 - SyscallCost(reg[R1])) ELSE left - 1
           r    == IF sys THEN [reg EXCEPT ![R0] = SyscallValue(reg[R1])] ELSE reg
       IN  IF sys /\ SyscallFails(reg[R1])
           THEN Halt(Err("SyscallError"), final_pc, l)
           ELSE IF fn THEN Call(CallTarget(program, pc, insn), r, l)
           ELSE IF sys THEN Continue(pc + 1, r, mem, frames, l)
           ELSE Halt(Err("UnsupportedInstruction"), pc, l)

Exit ==
    /\ At("EXIT")
    /\ IF frames = << >> THEN Halt(Ok(reg[R0]), final_pc, left - 1)
       ELSE LET top == frames[Len(frames)]
            IN  IF ~IsPcInProgram(program, top.target_pc)
                THEN Halt(Err("CallOutsideTextSegment"), pc, left - 1)
                ELSE Continue(top.target_pc, [reg EXCEPT ![R6] = top.r6, ![FP] = top.fp],
                              mem, SubSeq(frames, 1, Len(frames) - 1), left - 1)

Unsupported ==
    /\ running /\ left > 0 /\ pc < program.n
    /\ IsUnsupported(program, program.text[pc])
    /\ Halt(Err("UnsupportedInstruction"), pc, left - 1)

Next == \/ Start \/ Exceed \/ Overrun \/ Data \/ LoadDoubleWord \/ Jump
        \/ CallReg \/ CallImm \/ Exit \/ Unsupported

Spec == Init /\ [][Next]_vars

-----------------------------------------------------------------------------
(* The machine is deterministic, but for the registers an execution starts *)
(* with and for what memory holds when the budget was exceeded: `After' is *)
(* the state behind a running one, `Started' the first.                    *)

Exceeded == Err("ExceededMaxInstructions")

State == [running |-> running, pc |-> pc, reg |-> reg,
          mem |-> IF ~running /\ result = Exceeded THEN Dead ELSE mem,
          frames |-> frames, left |-> left, result |-> result, final_pc |-> final_pc]

Started(p, r, m, l, last) ==
    [running |-> TRUE, pc |-> p.entry, reg |-> Visible(l, r), mem |-> Visible(l, m),
     frames |-> Visible(l, << >>), left |-> l, result |-> last, final_pc |-> p.entry]

Going(s, to, r, m, f, l) ==
    [running |-> TRUE, pc |-> to, reg |-> Visible(l, r), mem |-> Visible(l, m),
     frames |-> Visible(l, f), left |-> l, result |-> s.result, final_pc |-> s.final_pc]

Halted(p, s, r, at, l) ==
    [running |-> FALSE, pc |-> p.entry, reg |-> Dead,
     mem |-> IF r = Exceeded THEN Dead ELSE s.mem,
     frames |-> Dead, left |-> l, result |-> r, final_pc |-> at]

Called(p, s, target, r, l) ==
    IF Len(s.frames) + 1 = MaxCallDepth
    THEN Halted(p, s, Err("CallDepthExceeded"), s.pc, l)
    ELSE IF ~IsPcInProgram(p, target)
    THEN Halted(p, s, Err("CallOutsideTextSegment"), s.pc, l)
    ELSE Going(s, target, [r EXCEPT ![FP] = WrappingAdd(@, FrameBump(p.version))], s.mem,
               Append(s.frames, Frame(r, s.pc + 1)), l)

AfterData(p, s, insn) ==
    IF Fault(insn, s.reg) # "none"
    THEN Halted(p, s, Err(Fault(insn, s.reg)), s.pc, s.left - 1)
    ELSE Going(s, s.pc + 1, RegistersAfter(insn, s.reg, s.mem),
               MemoryAfter(insn, s.reg, s.mem), s.frames, s.left - 1)

AfterCallImm(p, s, insn) ==
    LET sys == ResolvesToSyscall(p, insn)
        l   == IF sys THEN Max0(s.left - 1 - SyscallCost(s.reg[R1])) ELSE s.left - 1
        r   == IF sys THEN [s.reg EXCEPT ![R0] = SyscallValue(s.reg[R1])] ELSE s.reg
    IN  IF sys /\ SyscallFails(s.reg[R1]) THEN Halted(p, s, Err("SyscallError"), s.final_pc, l)
        ELSE IF ResolvesToFunction(p, s.pc, insn)
        THEN Called(p, s, CallTarget(p, s.pc, insn), r, l)
        ELSE IF sys THEN Going(s, s.pc + 1, r, s.mem, s.frames, l)
        ELSE Halted(p, s, Err("UnsupportedInstruction"), s.pc, l)

AfterExit(p, s) ==
    IF s.frames = << >> THEN Halted(p, s, Ok(s.reg[R0]), s.final_pc, s.left - 1)
    ELSE LET top == s.frames[Len(s.frames)]
         IN  IF ~IsPcInProgram(p, top.target_pc)
             THEN Halted(p, s, Err("CallOutsideTextSegment"), s.pc, s.left - 1)
             ELSE Going(s, top.target_pc, [s.reg EXCEPT ![R6] = top.r6, ![FP] = top.fp],
                        s.mem, SubSeq(s.frames, 1, Len(s.frames) - 1), s.left - 1)

AfterInsn(p, s, insn) ==
    IF IsDataOp(p, insn) THEN AfterData(p, s, insn)
    ELSE IF IsUnsupported(p, insn)
    THEN Halted(p, s, Err("UnsupportedInstruction"), s.pc, s.left - 1)
    ELSE CASE insn.op = "LD_DW_IMM" ->
            Going(s, s.pc + 2, [s.reg EXCEPT ![insn.dst] = Arith(insn.op, @, insn.imm)],
                  s.mem, s.frames, s.left - 1)
      [] insn.op \in {"JA", "JEQ"} ->
            Going(s, IF BranchTaken(insn, s.reg) THEN JumpTarget(s.pc, insn) ELSE s.pc + 1,
                  s.reg, s.mem, s.frames, s.left - 1)
      [] insn.op = "CALL_REG" ->
            Called(p, s, CallxTarget(s.reg[CallxRegister(p, insn)]), s.reg, s.left - 1)
      [] insn.op = "CALL_IMM" -> AfterCallImm(p, s, insn)
      [] insn.op = "EXIT" -> AfterExit(p, s)

After(p, s) ==
    IF s.left = 0 THEN Halted(p, s, Exceeded, s.pc, 0)
    ELSE IF s.pc >= p.n THEN Halted(p, s, Err("ExecutionOverrun"), s.pc, s.left - 1)
    ELSE AfterInsn(p, s, p.text[s.pc])

=============================================================================
