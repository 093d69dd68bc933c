--------------------------- MODULE VerifierLemmas ---------------------------
(***************************************************************************)
(* What the verifier's acceptance says of an instruction, and what an      *)
(* accepted instruction does to registers and memory.                      *)
(***************************************************************************)
EXTENDS VerifierRules, TLAPS

(* Zenon first: in large contexts it is much the faster of the two.        *)
USE ZenonT(5), SMTT(60)

-----------------------------------------------------------------------------
(* What the verifier's acceptance says of one instruction.                 *)

(* Every slot that is not the second half of a lddw passed its checks.     *)
LEMMA AcceptedInsn ==
    ASSUME NEW p, IsProgram(p), Accepts(p),
           NEW i \in 0..p.n-1, p.text[i].op # "ZERO"
    PROVE  /\ IsInsn(p.text[i])
           /\ check_opcode(p, i) = "none"
           /\ check_registers(p, p.text[i]) = "none"
  <1>1. IsInsn(p.text[i])
    BY DEF IsProgram
  <1>2. check_insn(p, i) = "none"
    BY DEF Accepts
  <1>3. QED
    BY <1>1, <1>2 DEF check_insn

(* Its register fields name registers, and the destination is the frame    *)
(* pointer only in a store or where frames are bumped by hand.             *)
LEMMA AcceptedRegisters ==
    ASSUME NEW p, IsProgram(p), Accepts(p),
           NEW i \in 0..p.n-1, p.text[i].op # "ZERO"
    PROVE  /\ p.text[i].src \in Registers
           /\ p.text[i].dst \in Registers
           /\ p.text[i].dst = FP =>
                 p.text[i].op = "ST" \/ ManualStackFrameBump(p.version)
  <1> DEFINE insn_i == p.text[i]
  <1>1. IsInsn(insn_i) /\ check_registers(p, insn_i) = "none"
    BY AcceptedInsn
  <1>2. insn_i.src \in RegisterFields /\ insn_i.dst \in RegisterFields
    BY <1>1 DEF IsInsn
  <1> HIDE DEF insn_i
  <1>3. insn_i.src <= 10 /\ insn_i.dst <= 10
    BY <1>1, <1>2 DEF check_registers, RegisterFields, Registers, R0, R1, R6, FP
  <1>4. insn_i.src \in Registers /\ insn_i.dst \in Registers
    BY <1>2, <1>3 DEF RegisterFields, Registers, R0, R1, R6, FP
  <1>5. insn_i.dst = FP => insn_i.op = "ST" \/ ManualStackFrameBump(p.version)
    BY <1>1, <1>3 DEF check_registers, FP
  <1>6. QED
    BY <1>4, <1>5 DEF insn_i

(* A jump leads into the program.                                          *)
LEMMA AcceptedJump ==
    ASSUME NEW p, IsProgram(p), Accepts(p),
           NEW i \in 0..p.n-1, p.text[i].op \in {"JA", "JEQ"}
    PROVE  JumpTarget(i, p.text[i]) \in 0..p.n-1
  <1>1. check_opcode(p, i) = "none"
    BY AcceptedInsn
  <1>2. check_jmp_offset(p, i) = "none"
    BY <1>1 DEF check_opcode
  <1>3. QED
    BY <1>2 DEF check_jmp_offset

(* A lddw has its second half behind it.                                   *)
LEMMA AcceptedLoadDoubleWord ==
    ASSUME NEW p, IsProgram(p), Accepts(p),
           NEW i \in 0..p.n-1, p.text[i].op = "LD_DW_IMM",
           ~DisableLddw(p.version)
    PROVE  i + 2 <= p.n /\ p.text[i + 1].op = "ZERO"
  <1>1. check_opcode(p, i) = "none"
    BY AcceptedInsn
  <1>2. check_load_dw(p, i) = "none"
    BY <1>1 DEF check_opcode
  <1>3. p.n \in Nat
    BY DEF IsProgram
  <1>4. QED
    BY <1>2, <1>3 DEF check_load_dw

(* A lddw the version has disabled is refused.                             *)
LEMMA AcceptedLoadEnabled ==
    ASSUME NEW p, IsProgram(p), Accepts(p),
           NEW i \in 0..p.n-1, p.text[i].op = "LD_DW_IMM"
    PROVE  ~DisableLddw(p.version)
  <1>1. check_opcode(p, i) = "none"
    BY AcceptedInsn
  <1>2. SUFFICES ASSUME DisableLddw(p.version) PROVE FALSE
    OBVIOUS
  <1>3. IsUnsupported(p, p.text[i])
    BY <1>2 DEF IsUnsupported, IsDataOp, DataOps, ArithOps
  <1>4. QED
    BY <1>1, <1>2, <1>3 DEF check_opcode

(* A division by a constant is not one by zero, a byte swap has one of the *)
(* widths the engines know, and callx names a register.                    *)
LEMMA AcceptedOperands ==
    ASSUME NEW p, IsProgram(p), Accepts(p), NEW i \in 0..p.n-1
    PROVE  /\ p.text[i].op = "DIV_IMM" => p.text[i].imm # 0
           /\ p.text[i].op = "ENDIAN" => p.text[i].imm \in {16, 32, 64}
           /\ p.text[i].op = "CALL_REG" => CallxRegister(p, p.text[i]) \in Registers
  <1> DEFINE insn_i == p.text[i]
  <1>1. ASSUME insn_i.op = "DIV_IMM" PROVE insn_i.imm # 0
    <2>1. check_opcode(p, i) = "none"
      BY <1>1, AcceptedInsn
    <2>2. QED
      BY <1>1, <2>1 DEF check_opcode, check_imm_nonzero
  <1>2. ASSUME insn_i.op = "ENDIAN" PROVE insn_i.imm \in {16, 32, 64}
    <2>1. check_opcode(p, i) = "none"
      BY <1>2, AcceptedInsn
    <2>2. QED
      BY <1>2, <2>1 DEF check_opcode, check_imm_endian
  <1>3. ASSUME insn_i.op = "CALL_REG" PROVE CallxRegister(p, insn_i) \in Registers
    <2>1. check_opcode(p, i) = "none" /\ IsInsn(insn_i)
      BY <1>3, AcceptedInsn
    <2>2. CallxRegister(p, insn_i) \in 0..9
      BY <1>3, <2>1 DEF check_opcode, check_callx_register
    <2>3. CallxRegister(p, insn_i) \in RegisterFields
      BY <1>3, <2>1 DEF CallxRegister, IsInsn
    <2>4. QED
      BY <2>2, <2>3 DEF RegisterFields, Registers, R0, R1, R6, FP
  <1>4. QED
    BY <1>1, <1>2, <1>3

-----------------------------------------------------------------------------
(* What the effects of instructions do to registers and memory.            *)

(* The remainder by the size of a word is a word.                          *)
LEMMA WordModulo == ASSUME NEW x \in Int PROVE x % Word \in Words
  BY ConfigAssumption DEF Words

(* Quotients of words are words.                                           *)
LEMMA WordQuotient ==
    ASSUME NEW a \in Words, NEW b \in Nat \ {0} PROVE a \div b \in Words
  <1>1. a \in Nat /\ a < Word /\ Word \in Nat
    BY ConfigAssumption DEF Words
  <1>2. a \div b \in Nat
    BY <1>1
  <1>3. a \div b <= a
    BY <1>1
  <1>4. QED
    BY <1>1, <1>2, <1>3 DEF Words

(* Signed division yields an integer.                                      *)
LEMMA SignedQuotient ==
    ASSUME NEW a \in Words, NEW b \in Words, b # 0
    PROVE  Quotient(Signed(a), Signed(b)) \in Int
  <1>1. /\ Signed(a) \in Int /\ Signed(b) \in Int /\ Signed(b) # 0
    BY ConfigAssumption DEF Signed, Words
  <1> DEFINE x == Signed(a)  y == Signed(b)
  <1>2. x \in Int /\ y \in Int /\ y # 0
    BY <1>1
  <1> HIDE DEF x, y
  <1>3. Quotient(x, y) \in Int
    <2>1. ASSUME NEW u \in Nat, NEW v \in Nat \ {0} PROVE u \div v \in Int
      OBVIOUS
    <2>2. CASE x < 0 /\ y < 0
      <3>1. (-x) \in Nat /\ (-y) \in Nat \ {0}
        BY <1>2, <2>2
      <3>2. (-x) \div (-y) \in Int
        BY <2>1, <3>1
      <3>3. QED
        BY <1>2, <2>2, <3>2 DEF Quotient
    <2>3. CASE x < 0 /\ y > 0
      <3>1. (-x) \in Nat /\ y \in Nat \ {0}
        BY <1>2, <2>3
      <3>2. (-x) \div y \in Int
        BY <2>1, <3>1
      <3>3. QED
        BY <1>2, <2>3, <3>2 DEF Quotient
    <2>4. CASE x >= 0 /\ y < 0
      <3>1. x \in Nat /\ (-y) \in Nat \ {0}
        BY <1>2, <2>4
      <3>2. x \div (-y) \in Int
        BY <2>1, <3>1
      <3>3. QED
        BY <1>2, <2>4, <3>2 DEF Quotient
    <2>5. CASE x >= 0 /\ y > 0
      <3>1. x \in Nat /\ y \in Nat \ {0}
        BY <1>2, <2>5
      <3>2. x \div y \in Int
        BY <2>1, <3>1
      <3>3. QED
        BY <1>2, <2>5, <3>2 DEF Quotient
    <2>6. QED
      BY <1>2, <2>2, <2>3, <2>4, <2>5
  <1>4. QED
    BY <1>3 DEF x, y

(* An accepted instruction raises one of the errors of its kind.           *)
LEMMA FaultErrors ==
    ASSUME NEW p, IsProgram(p), Accepts(p), NEW i \in 0..p.n-1, NEW r
    PROVE  Fault(p.text[i], r) \in
              {"none", "DivideByZero", "DivideOverflow", "AccessViolation"}
  <1>1. p.text[i].op = "ENDIAN" => p.text[i].imm \in {16, 32, 64}
    BY AcceptedOperands
  <1>2. QED
    BY <1>1 DEF Fault

(* A division that raises none does not divide by zero.                    *)
LEMMA FaultlessDivision ==
    ASSUME NEW insn_i, NEW r, Fault(insn_i, r) = "none",
           insn_i.op \in {"DIV_REG", "SDIV_REG"}
    PROVE  r[insn_i.src] # 0
  BY DEF Fault

(* The new registers, kind by kind.                                        *)
LEMMA RegistersAfterCases ==
    ASSUME NEW insn_i, NEW r, NEW m
    PROVE  /\ insn_i.op \in ArithOps =>
                 RegistersAfter(insn_i, r, m) =
                    [r EXCEPT ![insn_i.dst] = Arith(insn_i.op, @, insn_i.imm)]
           /\ insn_i.op = "DIV_IMM" =>
                 RegistersAfter(insn_i, r, m) =
                    [r EXCEPT ![insn_i.dst] = @ \div (insn_i.imm % Word)]
           /\ insn_i.op = "DIV_REG" =>
                 RegistersAfter(insn_i, r, m) =
                    [r EXCEPT ![insn_i.dst] = @ \div r[insn_i.src]]
           /\ insn_i.op = "SDIV_REG" =>
                 RegistersAfter(insn_i, r, m) =
                    [r EXCEPT ![insn_i.dst] =
                        Quotient(Signed(@), Signed(r[insn_i.src])) % Word]
           /\ insn_i.op = "LDX" =>
                 RegistersAfter(insn_i, r, m) = [r EXCEPT ![insn_i.dst] = m]
           /\ insn_i.op = "ST" => RegistersAfter(insn_i, r, m) = r
  BY DEF RegistersAfter, ArithOps

(* An instruction that raises no error writes words only, and leaves the   *)
(* frame pointer alone where frames are fixed.                             *)
LEMMA DataEffect ==
    ASSUME NEW p, IsProgram(p), Accepts(p), NEW i \in 0..p.n-1,
           NEW r \in [Registers -> Words], NEW m \in Words,
           IsDataOp(p, p.text[i]), Fault(p.text[i], r) = "none"
    PROVE  /\ RegistersAfter(p.text[i], r, m) \in [Registers -> Words]
           /\ MemoryAfter(p.text[i], r, m) \in Words
           /\ ~ManualStackFrameBump(p.version) =>
                 RegistersAfter(p.text[i], r, m)[FP] = r[FP]
  <1> DEFINE insn_i == p.text[i]
             after == RegistersAfter(insn_i, r, m)
  <1>1. insn_i.op \in DataOps /\ insn_i.op # "ZERO"
    BY DEF IsDataOp, DataOps, ArithOps
  <1>2. /\ insn_i.src \in Registers /\ insn_i.dst \in Registers
        /\ insn_i.dst = FP => insn_i.op = "ST" \/ ManualStackFrameBump(p.version)
    BY <1>1, AcceptedRegisters
  <1>3. insn_i.imm \in Immediates
    BY <1>1, AcceptedInsn DEF IsInsn
  <1>4. r[insn_i.src] \in Words /\ r[insn_i.dst] \in Words
    BY <1>2
  <1>5. MemoryAfter(insn_i, r, m) \in Words
    BY <1>4 DEF MemoryAfter
  <1>6. CASE insn_i.op = "ST"
    BY <1>5, <1>6, RegistersAfterCases
  <1>7. CASE insn_i.op # "ST"
    <2>1. \E v \in Words : after = [r EXCEPT ![insn_i.dst] = v]
      <3>1. CASE insn_i.op \in ArithOps
        <4>1. Arith(insn_i.op, r[insn_i.dst], insn_i.imm) \in Words
          BY <1>3, <1>4, <3>1, ArithAssumption DEF ArithOps, Words
        <4>2. QED
          BY <3>1, <4>1, RegistersAfterCases
      <3>2. CASE insn_i.op = "DIV_IMM"
        <4>1. insn_i.imm # 0
          BY <3>2, AcceptedOperands
        <4>2. insn_i.imm \in -(Word \div 2)..(Word \div 2)-1
          BY <1>3, ConfigAssumption
        <4>3. insn_i.imm % Word \in Nat \ {0}
          BY <4>1, <4>2, ConfigAssumption
        <4>4. r[insn_i.dst] \div (insn_i.imm % Word) \in Words
          BY <1>4, <4>3, WordQuotient
        <4>5. QED
          BY <3>2, <4>4, RegistersAfterCases
      <3>3. CASE insn_i.op = "DIV_REG"
        <4>1. r[insn_i.src] # 0
          BY <3>3, FaultlessDivision
        <4>2. r[insn_i.src] \in Nat \ {0}
          BY <1>4, <4>1, ConfigAssumption DEF Words
        <4>3. r[insn_i.dst] \div r[insn_i.src] \in Words
          BY <1>4, <4>2, WordQuotient
        <4>4. QED
          BY <3>3, <4>3, RegistersAfterCases
      <3>4. CASE insn_i.op = "SDIV_REG"
        <4>1. r[insn_i.src] # 0
          BY <3>4, FaultlessDivision
        <4>2. Quotient(Signed(r[insn_i.dst]), Signed(r[insn_i.src])) % Word \in Words
          BY <1>4, <4>1, SignedQuotient, WordModulo
        <4>3. QED
          BY <3>4, <4>2, RegistersAfterCases
      <3>5. CASE insn_i.op = "LDX"
        BY <3>5, RegistersAfterCases
      <3>6. QED
        BY <1>1, <1>7, <3>1, <3>2, <3>3, <3>4, <3>5 DEF DataOps
    <2>2. PICK v \in Words : after = [r EXCEPT ![insn_i.dst] = v]
      BY <2>1
    <2>3. after \in [Registers -> Words]
      BY <2>2
    <2>4. ~ManualStackFrameBump(p.version) => after[FP] = r[FP]
      BY <1>2, <1>7, <2>2 DEF Registers
    <2>5. QED
      BY <1>5, <2>3, <2>4
  <1>8. QED
    BY <1>6, <1>7

-----------------------------------------------------------------------------
(* Type correctness.                                                       *)

(* Every outcome of an execution is a result.                              *)
LEMMA ResultTypes ==
    /\ \A v \in Words : Ok(v) \in Results
    /\ \A e \in Errors : Err(e) \in Results
  BY DEF Results

(* 0 and the initial frame pointer are words.                              *)
LEMMA InitialWords ==
    ASSUME NEW v PROVE 0 \in Words /\ InitialFramePointer(v) \in Words
  BY ConfigAssumption DEF Words, InitialFramePointer, SaturatingAdd

(* A bumped frame pointer is a word.                                       *)
LEMMA BumpedWord ==
    ASSUME NEW x \in Words, NEW v PROVE WrappingAdd(x, FrameBump(v)) \in Words
  <1>1. FrameBump(v) \in Int
    BY ConfigAssumption DEF FrameBump
  <1>2. x + FrameBump(v) \in Int
    BY <1>1, ConfigAssumption DEF Words
  <1>3. QED
    BY <1>2, WordModulo DEF WrappingAdd

=============================================================================
