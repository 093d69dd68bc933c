------------------------------- MODULE X86Cpu -------------------------------
(***************************************************************************)
(* The part of the host processor the emitted code relies on (external):   *)
(* decoding of the fields X86!emit writes, and what each instruction does  *)
(* to registers, flags, stack and memory.  A machine is a record: sixteen  *)
(* registers, mm0, memory as a function of addresses of words, the flags   *)
(* as what the conditional jumps ask (equal, below, less) and whether they *)
(* are defined, rip, and whether it has faulted.                           *)
(***************************************************************************)
EXTENDS X86

(* Numbers of the host are not cut to a word.                              *)
Word(size, x) == IF x >= HostBase THEN x ELSE Low(size, x)

Faulted(m) == [m EXCEPT !.fault = TRUE]

-----------------------------------------------------------------------------
(* Decoding.                                                               *)

RexBit(e, n) == (e.rex \div 2^n) % 2
Mode(e)      == e.modrm \div 64
RegField(e)  == ((e.modrm \div 8) % 8)
RegOf(e)     == RegField(e) + 8 * RexBit(e, 2)
RmOf(e)      == (e.modrm % 8) + 8 * RexBit(e, 0)
OpcodeReg(e) == (e.opcode % 8) + 8 * RexBit(e, 0)
OperandSize(e) == IF RexBit(e, 3) = 1 THEN "S64" ELSE IF e.osize THEN "S16" ELSE "S32"

HasSib(e)     == e.modrm # NoByte /\ Mode(e) # 3 /\ e.modrm % 8 = 4
Upper(e)      == 8 * (e.opcode \div 8)

(* Length of the immediate an opcode is followed by.                       *)
ImmediateOf(e) ==
    CASE e.escape = 1 -> IF 16 * (e.opcode \div 16) = \h80 THEN "S32" ELSE "S0"
      [] e.opcode \in {\h81, \hc7, \h68, \he8, \he9} -> "S32"
      [] e.opcode = \hf7 /\ RegField(e) = 0 -> "S32"
      [] e.opcode = \hc1 -> "S8"
      [] Upper(e) = \hb8 -> IF RexBit(e, 3) = 1 THEN "S64" ELSE "S32"
      [] OTHER -> "S0"

NoModRm(e) ==
    IF e.escape = 1 THEN Upper(e) = \hc8 \/ 16 * (e.opcode \div 16) = \h80
    ELSE Upper(e) \in {\h50, \h58, \hb8} \/ e.opcode \in {\h68, \h90, \h99, \hc3, \he8, \he9}

(* The processor reads exactly the bytes that were emitted.                *)
Decodes(e) ==
    /\ NoModRm(e) <=> e.modrm = NoByte
    /\ HasSib(e) <=> e.sib # NoByte
    /\ e.disp_size = IF e.modrm = NoByte THEN "S0"
                     ELSE CASE Mode(e) = 1 -> "S8" [] Mode(e) = 2 -> "S32" [] OTHER -> "S0"
    /\ e.modrm # NoByte => Mode(e) # 0
    /\ e.imm_size = ImmediateOf(e)

EffectiveAddress(m, e) ==
    LET base == IF HasSib(e) THEN (e.sib % 8) + 8 * RexBit(e, 0) ELSE RmOf(e)
        index == ((e.sib \div 8) % 8) + 8 * RexBit(e, 1)
    IN  m.reg[base] + e.disp
        + (IF HasSib(e) /\ index # RSP THEN m.reg[index] * 2^(e.sib \div 64) ELSE 0)

-----------------------------------------------------------------------------
(* Operands.                                                               *)

SetReg(m, size, r, x) ==
    [m EXCEPT !.reg[r] = IF size = "S16" THEN @ - Low("S16", @) + Low("S16", x)
                         ELSE Word(size, x)]

Push(m, x) ==
    LET top == m.reg[RSP] - 8
    IN  IF top \notin DOMAIN m.mem THEN Faulted(m)
        ELSE [m EXCEPT !.reg[RSP] = top, !.mem[top] = x]
PopInto(m, Set(_, _)) ==
    LET top == m.reg[RSP]
    IN  IF top \notin DOMAIN m.mem THEN Faulted(m)
        ELSE Set([m EXCEPT !.reg[RSP] = top + 8], m.mem[top])

(* The operand the ModRM byte names: a register, a word of memory, or an   *)
(* entry of the read-only table rom.                                       *)
ReadRm(rom, m, e) ==
    LET at == EffectiveAddress(m, e)
        x == IF Mode(e) = 3 THEN m.reg[RmOf(e)]
             ELSE IF at \in DOMAIN m.mem THEN m.mem[at] ELSE rom[at]
    IN  Word(OperandSize(e), x)
Readable(rom, m, e) ==
    \/ e.modrm = NoByte
    \/ Mode(e) = 3
    \/ EffectiveAddress(m, e) \in DOMAIN m.mem \cup DOMAIN rom
WriteRm(m, e, x) ==
    LET at == EffectiveAddress(m, e)
    IN  IF Mode(e) = 3 THEN SetReg(m, OperandSize(e), RmOf(e), x)
        ELSE IF at \in DOMAIN m.mem /\ OperandSize(e) = "S64"
             THEN [m EXCEPT !.mem[at] = Word("S64", x)]
             ELSE Faulted(m)

SetFlags(m, equal, below, less) ==
    [m EXCEPT !.defined = TRUE, !.equal = equal, !.below = below, !.less = less]
Unflagged(m) == [SetFlags(m, FALSE, FALSE, FALSE) EXCEPT !.defined = FALSE]

Condition(m, code) ==
    CASE code = 2 -> m.below             [] code = 3 -> ~m.below
      [] code = 4 -> m.equal             [] code = 5 -> ~m.equal
      [] code = 6 -> m.below \/ m.equal  [] code = 7 -> ~(m.below \/ m.equal)
      [] code = 12 -> m.less             [] code = 13 -> ~m.less
      [] code = 14 -> m.less \/ m.equal  [] code = 15 -> ~(m.less \/ m.equal)
-----------------------------------------------------------------------------
(* Two-operand instructions: what is written back and the flags.           *)

GroupOf81 == [x \in {0, 1, 4, 5, 6, 7} |->
    CASE x = 0 -> "add" [] x = 1 -> "or" [] x = 4 -> "and"
      [] x = 5 -> "sub" [] x = 6 -> "xor" [] x = 7 -> "cmp"]
BinaryOf == [o \in {\h01, \h09, \h21, \h29, \h2b, \h31, \h39, \h85} |->
    CASE o = \h01 -> "add" [] o = \h09 -> "or"  [] o = \h21 -> "and" [] o \in {\h29, \h2b} -> "sub"
      [] o = \h31 -> "xor" [] o = \h39 -> "cmp" [] o = \h85 -> "test"]

(* A number of the host is below 2^31, so only its sign bit is known.      *)
Conjunction(size, a, b) ==
    IF a >= HostBase THEN IF Low("S32", b) = Span["S32"] \div 2 THEN 0 ELSE a
    ELSE Low(size, a) & Low(size, b)

Binary(name, size, a, b) ==
    CASE name = "add" -> Word(size, a + b)
      [] name \in {"sub", "cmp"} -> Word(size, a - b)
      [] name \in {"and", "test"} -> Conjunction(size, a, b)
      [] name = "or"  -> Low(size, a) | Low(size, b)
      [] name = "xor" -> IF a = b THEN 0 ELSE Low(size, a) ^^ Low(size, b)

BinaryFlags(m, name, size, a, b) ==
    LET x == Binary(name, size, a, b)
    IN  CASE name = "add" -> Unflagged(m)
          [] name \in {"sub", "cmp"} ->
                SetFlags(m, Word(size, a) = Word(size, b), Word(size, a) < Word(size, b),
                         Sign(size, a) < Sign(size, b))
          [] OTHER -> SetFlags(m, x = 0, FALSE, Sign(size, x) < 0)

(* Put the result where the instruction has its first operand.             *)
ToRm(m, e, name, a, b) ==
    LET f == BinaryFlags(m, name, OperandSize(e), a, b)
    IN  IF name \in {"cmp", "test"} THEN f
        ELSE WriteRm(f, e, Binary(name, OperandSize(e), a, b))
ToReg(m, e, name, a, b) ==
    SetReg(BinaryFlags(m, name, OperandSize(e), a, b), OperandSize(e), RegOf(e),
           Binary(name, OperandSize(e), a, b))

Shifted(ext, size, x, n) ==
    CASE ext = 0 -> Ror(size, x, (Bits[size] - n) % Bits[size])
      [] ext = 1 -> Ror(size, x, n)
      [] ext = 4 -> Shl(size, x, n)
      [] ext = 5 -> Shr(size, x, n)
      [] ext = 7 -> Sar(size, x, n)

(* RDX:RAX = RAX * x, and RAX, RDX = RDX:RAX / x.  A dividend that is not  *)
(* the extension of one word faults, as a quotient that does not fit.      *)
SetPair(m, size, low, high) == SetReg(SetReg(m, size, RAX, low), size, RDX, high)
Product(m, size, signed, x) ==
    LET a == Low(size, m.reg[RAX])
        b == Low(size, x)
        high == IF signed THEN (Sign(size, a) * Sign(size, b)) \div Span[size]
                ELSE IF size = "S64" THEN MulHigh(a, b) ELSE (a * b) \div Span[size]
    IN  SetPair(Unflagged(m), size, MulLow(size, a, b), high)
Division(m, size, signed, x) ==
    LET value(y) == IF signed THEN Sign(size, y) ELSE Low(size, y)
        a == value(m.reg[RAX])
        b == value(x)
        extension == IF a < 0 THEN Span[size] - 1 ELSE 0
    IN  IF b = 0 \/ Low(size, m.reg[RDX]) # extension
           \/ (signed /\ Quot(a, b) * 2 = Span[size])
        THEN Faulted(m)
        ELSE SetPair(Unflagged(m), size, Quot(a, b), Rem(a, b))

-----------------------------------------------------------------------------
(* One instruction.                                                        *)

ExecEscaped(rom, m, e) ==
    LET size == OperandSize(e)
        x == ReadRm(rom, m, e)
        code == e.opcode % 16
    IN  CASE e.opcode = \haf ->
                SetReg(Unflagged(m), size, RegOf(e), MulLow(size, m.reg[RegOf(e)], x))
          [] 16 * (e.opcode \div 16) = \h40 ->
                IF ~m.defined THEN Faulted(m)
                ELSE SetReg(m, size, RegOf(e), IF Condition(m, code) THEN x ELSE m.reg[RegOf(e)])
          [] 16 * (e.opcode \div 16) = \h80 ->
                IF ~m.defined THEN Faulted(m)
                ELSE IF Condition(m, code) THEN [m EXCEPT !.rip = @ + e.imm] ELSE m
          [] Upper(e) = \hc8 -> SetReg(m, size, OpcodeReg(e), SwapBytes(size, m.reg[OpcodeReg(e)]))
          [] e.opcode = \h6e -> [m EXCEPT !.mm0 = x]
          [] e.opcode = \h7e -> SetReg(m, size, RmOf(e), m.mm0)

ExecGroup(rom, m, e) ==
    LET size == OperandSize(e)
        ext == RegField(e)
        x == ReadRm(rom, m, e)
        imm == IF e.imm >= HostBase THEN e.imm ELSE Sign("S32", e.imm)
        jump(t) == [t EXCEPT !.rip = x]
    IN  CASE e.opcode = \h81 -> ToRm(m, e, GroupOf81[ext], x, imm)
          [] e.opcode = \hc1 -> WriteRm(Unflagged(m), e, Shifted(ext, size, x, e.imm))
          [] e.opcode = \hd3 -> WriteRm(Unflagged(m), e, Shifted(ext, size, x, m.reg[RCX]))
          [] e.opcode = \hc7 -> WriteRm(m, e, imm)
          [] e.opcode = \hf7 ->
                (CASE ext = 0 -> ToRm(m, e, "test", x, imm)
                   [] ext = 3 -> WriteRm(Unflagged(m), e, -x)
                   [] ext \in {4, 5} -> Product(m, size, ext = 5, x)
                   [] ext \in {6, 7} -> Division(m, size, ext = 7, x))
          [] e.opcode = \hff -> jump(Push(m, m.rip))

Exec(rom, before, e) ==
    LET m == [before EXCEPT !.rip = @ + Length(e)]
        size == OperandSize(e)
        r == RegOf(e)
        x == ReadRm(rom, m, e)
        imm == IF e.imm >= HostBase THEN e.imm ELSE Sign(e.imm_size, e.imm)
        pop_to(t, y) == SetReg(t, "S64", OpcodeReg(e), y)
        return(t, y) == [t EXCEPT !.rip = y]
        relative(t) == [t EXCEPT !.rip = @ + e.imm]
    IN  IF ~Decodes(e) \/ (e.opcode # \h8d /\ ~Readable(rom, m, e)) THEN Faulted(before)
        ELSE CASE e.escape = 1 -> ExecEscaped(rom, m, e)
          [] e.opcode \in {\h81, \hc1, \hd3, \hc7, \hf7, \hff} -> ExecGroup(rom, m, e)
          [] e.opcode = \h2b -> ToReg(m, e, "sub", Word(size, m.reg[r]), x)
          [] e.opcode \in DOMAIN BinaryOf \ {\h2b} ->
                ToRm(m, e, BinaryOf[e.opcode], x, Word(size, m.reg[r]))
          [] e.opcode = \h89 -> WriteRm(m, e, m.reg[r])
          [] e.opcode = \h8b -> SetReg(m, size, r, x)
          [] e.opcode = \h8d -> SetReg(m, size, r, EffectiveAddress(m, e))
          [] e.opcode = \h63 -> SetReg(m, size, r, Sign("S32", x))
          [] e.opcode = \h87 -> SetReg(WriteRm(m, e, m.reg[r]), size, r, x)
          [] e.opcode = \h99 -> SetReg(m, size, RDX, IF Sign(size, m.reg[RAX]) < 0 THEN -1 ELSE 0)
          [] Upper(e) = \hb8 -> SetReg(m, size, OpcodeReg(e), imm)
          [] Upper(e) = \h50 -> Push(m, m.reg[OpcodeReg(e)])
          [] Upper(e) = \h58 -> PopInto(m, pop_to)
          [] e.opcode = \h68 -> Push(m, Word("S64", imm))
          [] e.opcode = \he8 -> relative(Push(m, m.rip))
          [] e.opcode = \he9 -> relative(m)
          [] e.opcode = \hc3 -> PopInto(m, return)
          [] e.opcode = \h90 -> m
=============================================================================
