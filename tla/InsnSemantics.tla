---------------------------- MODULE InsnSemantics ----------------------------
(***************************************************************************)
(* What Interpreter::step does with every instruction, on the words of     *)
(* MachineWords.  The memory behind the memory mapping is the eight bytes  *)
(* at CellAddress; an access to any other address fails.                   *)
(***************************************************************************)
EXTENDS Ebpf, MachineWords, Sequences

CONSTANTS
    InsnSize, TextStart, CellAddress,
    MaxCallDepth, StackFrameSize, StackFrameGaps,
    SyscallKeys,
    SyscallCost(_), SyscallFails(_), SyscallValue(_)    \* of the five arguments

FramePtr == 10
ScratchRegs == 6..9

-----------------------------------------------------------------------------
(* The arms of the match: which bytes each version has an arm for.         *)

InterpreterAlu(v) ==
    Alu({"ADD", "SUB", "OR", "AND", "LSH", "RSH", "XOR", "MOV", "ARSH"})
    \cup (IF EnablePqr(v) THEN {} ELSE Alu({"MUL", "DIV", "MOD"}))
    \cup (IF DisableNeg(v) THEN {} ELSE {NEG32, NEG64})
    \cup (IF DisableLe(v) THEN {} ELSE {LE})
    \cup (IF DisableLddw(v) THEN {HOR64_IMM} ELSE {})
    \cup {BE}
InterpreterPqr(v) ==
    IF EnablePqr(v)
    THEN Pqr32({"LMUL", "UDIV", "UREM", "SDIV", "SREM"}) \cup Pqr64(DOMAIN BPF_PQR_OP)
    ELSE {}
InterpreterBranches(v) ==
    Branches(BPF_JMP64) \cup (IF EnableJmp32(v) THEN Branches(BPF_JMP32) ELSE {})
InterpreterArms(v) ==
    InterpreterAlu(v) \cup InterpreterPqr(v) \cup InterpreterBranches(v)
    \cup Loads(v) \cup StoresImm(v) \cup StoresReg(v)
    \cup {JA, CALL_IMM, CALL_REG, EXIT}
    \cup (IF DisableLddw(v) THEN {} ELSE {LD_DW_IMM})

(* Results of 32 bit additions, subtractions and products.                 *)
SignExtension(v, x) ==
    IF ExplicitSignExtensionOfResults(v) THEN Low("S32", x) ELSE U64(Sign("S32", x))

(* reg[dst] after an arithmetic instruction; a is reg[dst], b the second   *)
(* operand.                                                                *)
AluResult(v, insn, a, b) ==
    LET opc  == insn.opc
        size == IF Class(opc) = BPF_ALU32_LOAD THEN "S32" ELSE "S64"
        is(name) == Operation(opc) = BPF_OP[name]
        extended(x) == IF size = "S32" THEN SignExtension(v, x) ELSE U64(x)
        la == Low(size, a)
        lb == Low(size, b)
    IN  CASE is("ADD") -> extended(a + b)
          [] is("SUB") -> IF SwapSubRegImmOperands(v) /\ ~TakesRegister(opc)
                          THEN extended(b - a) ELSE extended(a - b)
          [] is("MUL") -> extended(MulLow(size, la, lb))
          [] is("DIV") -> la \div lb
          [] is("MOD") -> la % lb
          [] is("OR")  -> la | lb
          [] is("AND") -> la & lb
          [] is("XOR") -> la ^^ lb
          [] is("LSH") -> Shl(size, a, Low("S32", b))
          [] is("RSH") -> Shr(size, a, Low("S32", b))
          [] is("ARSH") -> Sar(size, a, Low("S32", b))
          [] is("NEG") -> Low(size, -a)
          [] is("MOV") -> IF size = "S64" THEN b
                          ELSE IF TakesRegister(opc) /\ ExplicitSignExtensionOfResults(v)
                               THEN U64(Sign("S32", b)) ELSE lb
          [] is("HOR") -> a | Shl("S64", b, Bits["S32"])
          [] opc = LE -> Low(CASE insn.imm = 16 -> "S16" [] insn.imm = 32 -> "S32"
                               [] insn.imm = 64 -> "S64", a)
          [] opc = BE -> SwapBytes(CASE insn.imm = 16 -> "S16" [] insn.imm = 32 -> "S32"
                                     [] insn.imm = 64 -> "S64", a)

(* reg[dst] after a product, quotient or remainder of the moved class.     *)
PqrSize(opc) == IF Bit(opc, 4) THEN "S64" ELSE "S32"
PqrResult(insn, a, b) ==
    LET opc  == insn.opc
        size == PqrSize(opc)
        ub   == IF TakesRegister(opc) THEN Low(size, b) ELSE Low("S32", b)
        is(name) == Operation(opc) - (IF Bit(opc, 4) THEN BPF_PQR_64 ELSE 0) = BPF_PQR_OP[name]
    IN  CASE is("LMUL")  -> MulLow(size, Low(size, a), Low(size, b))
          [] is("UHMUL") -> MulHigh(a, ub)
          [] is("SHMUL") -> U64((Sign("S64", a) * Sign("S64", b)) \div Span["S64"])
          [] is("UDIV")  -> Low(size, a) \div ub
          [] is("UREM")  -> Low(size, a) % ub
          [] is("SDIV")  -> Low(size, Quot(Sign(size, a), Sign(size, b)))
          [] is("SREM")  -> Low(size, Rem(Sign(size, a), Sign(size, b)))

(* The error an arithmetic instruction raises, or "none".                  *)
AluFault(insn, a, b) ==
    LET opc == insn.opc
        pqr == Class(opc) = BPF_PQR
        size == IF pqr THEN PqrSize(opc)
                ELSE IF Class(opc) = BPF_ALU32_LOAD THEN "S32" ELSE "S64"
        divides == IF pqr THEN Bit(opc, 6) ELSE Operation(opc) \in {BPF_OP["DIV"], BPF_OP["MOD"]}
    IN  CASE divides /\ TakesRegister(opc) /\ Low(size, b) = 0 -> "DivideByZero"
          [] /\ divides /\ pqr /\ Bit(opc, 7)
             /\ Sign(size, a) = -(Span[size] \div 2) /\ Sign(size, b) = -1 -> "DivideOverflow"
          [] opc \in {LE, BE} /\ insn.imm \notin {16, 32, 64} -> "InvalidInstruction"
          [] OTHER -> "none"

(* Whether a conditional jump is taken.                                    *)
Taken(insn, a, b) ==
    LET size == IF Class(insn.opc) = BPF_JMP32 THEN "S32" ELSE "S64"
        is(name) == Operation(insn.opc) = BPF_JUMP[name]
        la == Low(size, a)
        lb == Low(size, b)
        sa == Sign(size, a)
        sb == Sign(size, b)
    IN  CASE is("JEQ") -> la = lb   [] is("JNE") -> la # lb
          [] is("JGT") -> la > lb   [] is("JGE") -> la >= lb
          [] is("JLT") -> la < lb   [] is("JLE") -> la <= lb
          [] is("JSGT") -> sa > sb  [] is("JSGE") -> sa >= sb
          [] is("JSLT") -> sa < sb  [] is("JSLE") -> sa <= sb
          [] is("JSET") -> la & lb # 0
-----------------------------------------------------------------------------
(* Interpreter::step.  p is the executable: its version, its text (an      *)
(* instruction per pc), its function registry and the two switches of the  *)
(* configuration; s is what the interpreter and the machine it belongs to  *)
(* hold.                                                                   *)

Ok(x)  == <<"Ok", x>>
Err(e) == <<"Err", e>>

Pcs(p) == DOMAIN p.text

(* vm.registers[11] is only written when an error is thrown.               *)
ThrowError(s, e) ==
    [s EXCEPT !.registers11 = s.pc, !.program_result = Err(e), !.stopped = TRUE]

GoTo(s, pc) == [s EXCEPT !.pc = pc]

CheckPc(p, s, target) ==
    IF target \in Pcs(p) THEN GoTo(s, target) ELSE ThrowError(s, "CallOutsideTextSegment")

(* push_frame; and the jump behind it, unless it has thrown an error.      *)
(* With static syscalls CallsFunction has looked at the target already.    *)
FrameStride(p) ==
    IF ManualStackFrameBump(p.version) THEN 0
    ELSE StackFrameSize * (IF HasStackFrameGaps(p.version) /\ StackFrameGaps THEN 2 ELSE 1)
PushFrame(p, s) ==
    LET t == [s EXCEPT
                !.frames = Append(@, [saved |-> [r \in ScratchRegs |-> s.reg[r]],
                                      fp |-> s.reg[FramePtr], target |-> s.pc + 1]),
                !.call_depth = @ + 1]
    IN  IF t.call_depth = MaxCallDepth THEN ThrowError(t, "CallDepthExceeded")
        ELSE [t EXCEPT !.reg[FramePtr] = U64(@ + FrameStride(p))]
EnterCallee(p, pushed, target) ==
    IF pushed.stopped THEN pushed ELSE CheckPc(p, pushed, target)

(* The memory mapping: the word at CellAddress, read and written in        *)
(* little-endian order; a shorter access may start at any of its bytes.    *)
AccessOf == [B |-> "S8", H |-> "S16", W |-> "S32", DW |-> "S64"]
InCell(addr, len) == addr >= CellAddress /\ addr + len <= CellAddress + 8
Loaded(cell, addr, s) ==
    Low(AccessOf[s], cell \div 2^(ByteBits * (addr - CellAddress)))
Stored(cell, addr, s, x) ==
    LET unit == 2^(ByteBits * (addr - CellAddress))
    IN  cell - Loaded(cell, addr, s) * unit + Low(AccessOf[s], x) * unit

(* The wrapper declare_builtin_function! puts around a syscall, called     *)
(* with due_insn_count set to what is left of the budget.                  *)
Consume(remaining, n) == IF n > remaining THEN 0 ELSE remaining - n
Builtin(p, remaining, previous, due, args) ==
    LET before == IF p.meter THEN Consume(remaining, previous - due) ELSE remaining
        after  == Consume(before, SyscallCost(args))
    IN  [remaining |-> after,
         previous |-> IF p.meter THEN after ELSE previous,
         result |-> IF SyscallFails(args) THEN Err("SyscallError") ELSE Ok(SyscallValue(args))]

DispatchSyscall(p, s) ==
    LET done == Builtin(p, s.remaining, s.previous, s.previous - s.due,
                        [i \in 1..5 |-> s.reg[i]])
    IN  [s EXCEPT !.remaining = done.remaining, !.previous = done.previous, !.due = 0,
                  !.program_result = done.result,
                  !.stopped = (done.result[1] = "Err"),
                  !.reg[0] = IF done.result[1] = "Ok" THEN done.result[2] ELSE @]

(* CALL_IMM: a syscall, a function, both or neither.                       *)
CallsSyscall(p, insn) ==
    (~StaticSyscalls(p.version) \/ insn.src = 0) /\ insn.imm \in SyscallKeys
CallsFunction(p, pc, insn) ==
    IF StaticSyscalls(p.version) THEN insn.src = 1 /\ pc + 1 + insn.imm \in Pcs(p)
    ELSE insn.imm \in DOMAIN p.functions
CalleeOf(p, pc, insn) ==
    IF StaticSyscalls(p.version) THEN pc + 1 + insn.imm ELSE p.functions[insn.imm]
StepCallImm(p, s, insn) ==
    LET called == IF CallsSyscall(p, insn) THEN DispatchSyscall(p, s) ELSE s
    IN  IF called.stopped THEN called
        ELSE IF CallsFunction(p, s.pc, insn)
             THEN EnterCallee(p, PushFrame(p, called), CalleeOf(p, s.pc, insn))
        ELSE IF CallsSyscall(p, insn) THEN GoTo(called, s.pc + 1)
        ELSE ThrowError(s, "UnsupportedInstruction")

CallxRegister(p, insn) ==
    IF CallxUsesSrcReg(p.version) THEN insn.src
    ELSE IF CallxUsesDstReg(p.version) THEN insn.dst ELSE insn.imm
StepCallReg(p, s, insn) ==
    LET target == U64(s.reg[CallxRegister(p, insn)] - TextStart) \div InsnSize
    IN  EnterCallee(p, PushFrame(p, s), target)

StepExit(p, s) ==
    IF s.call_depth = 0
    THEN IF p.meter /\ s.due > s.previous THEN ThrowError(s, "ExceededMaxInstructions")
         ELSE [s EXCEPT !.program_result = Ok(s.reg[0]), !.stopped = TRUE]
    ELSE LET frame == s.frames[s.call_depth]
         IN  CheckPc(p, [s EXCEPT
                 !.call_depth = @ - 1, !.frames = SubSeq(@, 1, s.call_depth - 1),
                 !.reg = [r \in DOMAIN @ |-> IF r = FramePtr THEN frame.fp
                                             ELSE IF r \in ScratchRegs THEN frame.saved[r]
                                             ELSE @[r]]], frame.target)

StepAccess(p, s, insn) ==
    LET v == p.version
        opc == insn.opc
        load == opc \in Loads(v)
        size == IF load THEN SizeOfLoad(v, opc)
                ELSE IF opc \in StoresImm(v) THEN SizeOfStoreImm(v, opc)
                ELSE SizeOfStoreReg(v, opc)
        addr == U64(s.reg[IF load THEN insn.src ELSE insn.dst] + insn.off)
        value == IF opc \in StoresImm(v) THEN insn.imm ELSE s.reg[insn.src]
        t == GoTo(s, s.pc + 1)
    IN  IF ~InCell(addr, AccessLen[size]) THEN ThrowError(s, "AccessViolation")
        ELSE IF load THEN [t EXCEPT !.reg[insn.dst] = Loaded(s.cell, addr, size)]
        ELSE [t EXCEPT !.cell = Stored(@, addr, size, value)]

StepArithmetic(p, s, insn) ==
    LET a == s.reg[insn.dst]
        b == IF TakesRegister(insn.opc) THEN s.reg[insn.src] ELSE U64(insn.imm)
        fault == AluFault(insn, a, b)
    IN  IF fault # "none" THEN ThrowError(s, fault)
        ELSE [GoTo(s, s.pc + 1) EXCEPT !.reg[insn.dst] =
                 IF Class(insn.opc) = BPF_PQR THEN PqrResult(insn, a, b)
                 ELSE AluResult(p.version, insn, a, b)]

StepBranch(s, insn) ==
    LET b == IF TakesRegister(insn.opc) THEN s.reg[insn.src] ELSE U64(insn.imm)
    IN  GoTo(s, s.pc + 1 + (IF insn.opc = JA \/ Taken(insn, s.reg[insn.dst], b)
                            THEN insn.off ELSE 0))

(* LD_DW_IMM and its second slot.                                          *)
WideImm(p, pc) == Low("S32", p.text[pc].imm) + Low("S32", p.text[pc+1].imm) * Span["S32"]

Execute(p, s, insn) ==
    LET v == p.version
        opc == insn.opc
    IN  CASE opc \notin InterpreterArms(v) -> ThrowError(s, "UnsupportedInstruction")
          [] opc = LD_DW_IMM -> [GoTo(s, s.pc + 2) EXCEPT !.reg[insn.dst] = WideImm(p, s.pc)]
          [] opc \in Loads(v) \cup StoresImm(v) \cup StoresReg(v) -> StepAccess(p, s, insn)
          [] opc \in InterpreterAlu(v) \cup InterpreterPqr(v) -> StepArithmetic(p, s, insn)
          [] opc \in InterpreterBranches(v) \cup {JA} -> StepBranch(s, insn)
          [] opc = CALL_REG -> StepCallReg(p, s, insn)
          [] opc = CALL_IMM -> StepCallImm(p, s, insn)
          [] opc = EXIT -> StepExit(p, s)

Step(p, s) ==
    LET t == [s EXCEPT !.due = @ + 1]
        traced == [t EXCEPT !.trace = IF p.tracing THEN Append(@, <<s.pc, s.reg>>) ELSE @]
    IN  IF p.meter /\ s.due >= s.previous THEN ThrowError(s, "ExceededMaxInstructions")
        ELSE IF s.pc \notin Pcs(p) THEN ThrowError(t, "ExecutionOverrun")
        ELSE Execute(p, traced, p.text[s.pc])
=============================================================================
