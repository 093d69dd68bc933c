--------------------------- MODULE VerifierRules ---------------------------
(***************************************************************************)
(* The checks RequisiteVerifier makes of one instruction (verifier.rs).    *)
(* Each is the error it returns, or "none".                                *)
(***************************************************************************)
EXTENDS Sbpf

(* Mutant: a check that is not made.                                       *)
check_imm_nonzero_skipped(insn) == "none"

check_imm_nonzero(insn) == IF insn.imm = 0 THEN "DivisionByZero" ELSE "none"

check_imm_endian(insn) ==
    IF insn.imm \in {16, 32, 64} THEN "none" ELSE "UnsupportedLEBEArgument"

check_imm_aligned(insn, alignment) ==
    IF insn.imm % alignment = 0 THEN "none" ELSE "UnalignedImmediate"

check_imm_shift(insn, bits) ==
    IF insn.imm < 0 \/ insn.imm >= bits THEN "ShiftWithOverflow" ELSE "none"

check_load_dw(p, i) ==
    IF i + 1 >= p.n THEN "LDDWCannotBeLast"
    ELSE IF p.text[i + 1].op # "ZERO" THEN "IncompleteLDDW"
    ELSE "none"

check_jmp_offset(p, i) ==
    LET target == JumpTarget(i, p.text[i])
    IN  IF target \notin 0..p.n-1 THEN "JumpOutOfCode"
        ELSE IF p.text[target].op = "ZERO" THEN "JumpToMiddleOfLDDW"
        ELSE "none"

check_callx_register(p, insn) ==
    IF CallxRegister(p, insn) \in 0..9 THEN "none" ELSE "InvalidRegister"

check_registers(p, insn) ==
    CASE insn.src > 10 -> "InvalidSourceRegister"
      [] insn.src <= 10 /\ insn.dst > 10 -> "InvalidDestinationRegister"
      [] insn.src <= 10 /\ insn.dst = 10 /\ insn.op # "ST"
         /\ ~(ManualStackFrameBump(p.version) /\ insn.op = "ADD64_IMM")
            -> "CannotWriteR10"
      [] OTHER -> "none"

(* The arms of the match on the opcode.                                    *)
check_opcode(p, i) ==
    LET insn == p.text[i]
    IN  CASE insn.op = "LD_DW_IMM" /\ ~DisableLddw(p.version) -> check_load_dw(p, i)
          [] insn.op = "DIV_IMM" -> check_imm_nonzero(insn)
          [] insn.op = "SHIFT64_IMM" -> check_imm_shift(insn, 64)
          [] insn.op = "SHIFT32_IMM" -> check_imm_shift(insn, 32)
          [] insn.op = "ENDIAN" -> check_imm_endian(insn)
          [] insn.op = "ADD64_IMM" /\ insn.dst = FP /\ ManualStackFrameBump(p.version)
                -> check_imm_aligned(insn, 64)
          [] insn.op \in {"JA", "JEQ"} -> check_jmp_offset(p, i)
          [] insn.op = "CALL_REG" -> check_callx_register(p, insn)
          [] IsUnsupported(p, insn) -> "UnknownOpCode"
          [] OTHER -> "none"

check_insn(p, i) ==
    IF check_opcode(p, i) # "none" THEN check_opcode(p, i)
    ELSE check_registers(p, p.text[i])

(* Slots taken by the instruction at i.                                    *)
Width(p, i) ==
    IF p.text[i].op = "LD_DW_IMM" /\ ~DisableLddw(p.version) THEN 2 ELSE 1

(* The programs the verifier lets through, slot by slot: every slot holds  *)
(* an instruction that passes its checks or the second half of one.        *)
Accepts(p) ==
    \A i \in 0..p.n-1 :
        \/ check_insn(p, i) = "none"
        \/ i > 0 /\ p.text[i].op = "ZERO" /\ Width(p, i - 1) = 2
                 /\ check_insn(p, i - 1) = "none"

=============================================================================
