------------------------------ MODULE MCConfig ------------------------------
(***************************************************************************)
(* The small instance the engines are checked on: a word of 256 values,   *)
(* instructions of two addresses, and every text of TextLen slots drawn    *)
(* from a set of instructions.                                             *)
(***************************************************************************)
EXTENDS VerifierRules

CONSTANTS TextLen, MCVersions

MCArith(op, v, imm) ==
    CASE op = "ADD64_IMM" -> (v + imm) % Word
      [] op \in {"SHIFT64_IMM", "SHIFT32_IMM"} -> (v * 2) % Word
      [] op = "ENDIAN"    -> v
      [] OTHER            -> imm % Word

(* A syscall that fails on 7 and above, and costs what its argument says.  *)
MCSyscallCost(v)  == v
MCSyscallFails(v) == v >= 7
MCSyscallValue(v) == (v + 1) % Word

I(op, dst, src, imm, off) ==
    [op |-> op, dst |-> dst, src |-> src, imm |-> imm, off |-> off]

(* Instructions of every version.                                          *)
CommonInsns ==
    { I("MOV64_IMM", R1, 0, 5, 0),      I("MOV64_IMM", R6, 0, 3, 0),
      I("DIV_REG", R0, R6, 0, 0),       I("LDX", R6, FP, 0, 0),
      I("ST", FP, R1, 0, 0),            I("JA", 0, 0, 0, -2),
      I("JA", 0, 0, 0, 1),              I("JEQ", R0, 0, 0, -1),
      I("EXIT", 0, 0, 0, 0) }

(* Instructions that only the verifier's checks keep out of an execution.  *)
RefusedInsns ==
    { I("DIV_IMM", R0, 0, 0, 0),        I("ENDIAN", R1, 0, 7, 0),
      I("MOV64_IMM", 12, 0, 3, 0),      I("UNKNOWN", 0, 0, 0, 0) }

(* What the version changes: callx, call, lddw, the frame pointer.         *)
VersionInsns(v) ==
    CASE v = "V0" -> { I("CALL_REG", 0, 0, R1, 0), I("CALL_IMM", 0, 0, 1, 0),
                       I("CALL_IMM", 0, 0, 0, 0), I("CALL_IMM", 0, 0, 2, 0),
                       I("CALL_IMM", 0, 0, 7, 0),
                       I("LD_DW_IMM", R1, 0, 7, 0), I("ZERO", 0, 0, 0, 0) }
      [] v = "V2" -> { I("CALL_REG", 0, R1, 0, 0), I("CALL_IMM", 0, 0, 1, 0),
                       I("CALL_IMM", 0, 0, 0, 0),
                       I("ADD64_IMM", FP, 0, 64, 0), I("SDIV_REG", R0, R1, 0, 0),
                       I("MOV64_IMM", R0, 0, -128, 0), I("MOV64_IMM", R1, 0, -1, 0) }
      [] OTHER    -> { I("CALL_REG", R1, 0, 0, 0), I("CALL_IMM", 0, 0, 0, 0),
                       I("CALL_IMM", 0, 1, -1, 0), I("CALL_IMM", 0, 1, 0, 0),
                       I("CALL_IMM", 0, 0, 7, 0),
                       I("LD_DW_IMM", R1, 0, 7, 0), I("ZERO", 0, 0, 0, 0) }

MCImmediates == {-128, -1, 0, 1, 2, 3, 5, 7, 32, 64}

MCTexts(v) ==
    { [version |-> v, n |-> TextLen, text |-> t, functions |-> {1, 2}, entry |-> 0] :
      t \in [0..TextLen-1 -> CommonInsns \cup RefusedInsns \cup VersionInsns(v)] }

MCPrograms == UNION { {p \in MCTexts(v) : Accepts(p)} : v \in MCVersions }

(* Whether a program ends in a call: see the README for those that do.     *)
EndsInCall(p)    == p.text[p.n - 1].op \in {"CALL_REG", "CALL_IMM"}
EndsInNoCall(p)  == ~EndsInCall(p)

=============================================================================
