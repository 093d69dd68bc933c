----------------------------- MODULE MCDebugger -----------------------------
(***************************************************************************)
(* Debug sessions over programs that compute, loop, recurse until the call *)
(* depth is exceeded, call a syscall that fails, and fault.                *)
(***************************************************************************)
EXTENDS Debugger, MCConfig

Program(v, t) == [version |-> v, n |-> Len(t), functions |-> {1}, entry |-> 0,
                  text |-> [i \in 0..Len(t)-1 |-> t[i + 1]]]

MCDebugged ==
    { Program("V0", <<I("MOV64_IMM", R0, 0, 64, 0), I("EXIT", 0, 0, 0, 0)>>),
      Program("V0", <<I("CALL_IMM", 0, 0, 0, 0), I("JA", 0, 0, 0, -2)>>),
      Program("V0", <<I("CALL_IMM", 0, 0, 1, 0), I("CALL_REG", 0, 0, R1, 0),
                      I("EXIT", 0, 0, 0, 0)>>),
      Program("V3", <<I("LDX", R0, R1, 0, 0), I("CALL_IMM", 0, 1, -1, 0),
                      I("EXIT", 0, 0, 0, 0)>>) }

=============================================================================
