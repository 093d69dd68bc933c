----------------------------- MODULE MCVerifier -----------------------------
(* The verifier on every text of up to TextLen slots of MCConfig, with     *)
(* registers, immediates and jumps that are out of bounds among them.      *)
EXTENDS Verifier, MCConfig

CheckedInsns ==
    { I("MOV64_IMM", R1, 0, 5, 0),   I("MOV64_IMM", 12, 0, 3, 0),
      I("ADD64_IMM", FP, 0, 1, 0),   I("ADD64_IMM", FP, 0, 64, 0),
      I("DIV_IMM", R0, 0, 0, 0),     I("ENDIAN", R1, 0, 7, 0),
      I("SHIFT64_IMM", R0, 0, 64, 0), I("SHIFT32_IMM", R0, 0, 32, 0),
      I("SDIV_REG", R0, R1, 0, 0),
      I("LDX", R0, 12, 0, 0),        I("ST", FP, R1, 0, 0),
      I("LD_DW_IMM", FP, 0, 0, 0),   I("LD_DW_IMM", R0, 0, 0, 0),
      I("ZERO", 0, 0, 0, 0),         I("JA", 0, 0, 0, -2),
      I("JEQ", R0, 0, 0, 1),         I("CALL_REG", FP, R1, R1, 0),
      I("EXIT", 0, 0, 0, 0) }

MCCandidates ==
    UNION { { [version |-> v, n |-> n, text |-> t, functions |-> {}, entry |-> 0] :
              t \in [0..n-1 -> CheckedInsns] } :
            v \in MCVersions, n \in 0..TextLen }

=============================================================================
