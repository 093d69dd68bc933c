---------------------------- MODULE MCMachineCode ----------------------------
(***************************************************************************)
(* Small executables for MachineCode.  A byte has two bits, so an immediate *)
(* is -128..127 and a register 0..65535; host addresses are far above.     *)
(***************************************************************************)
EXTENDS MachineCode

MCHostBase    == 2^18
MCEbpfVm      == 2 * MCHostBase
MCStackTop    == 3 * MCHostBase
MCPcSection   == 3 * MCHostBase + 65536
MCTextSection == 4 * MCHostBase
MCHostReturn  == 7 * MCHostBase
MCTracePush   == 7 * MCHostBase + 16
SizeIndex == [B |-> 0, H |-> 1, W |-> 2, DW |-> 3]
MCLoadFunction(size)   == 7 * MCHostBase + 256 + 16 * SizeIndex[size]
MCStoreFunction(size)  == 7 * MCHostBase + 512 + 16 * SizeIndex[size]
MCSyscallFunction(key) == 7 * MCHostBase + 1024 + 16 * key

MCSyscallCost(args)  == args[2] % 4
MCSyscallFails(args) == args[1] = 9
MCSyscallValue(args) == U64(args[1] + 3 * args[5])

-----------------------------------------------------------------------------
(* Putting programs together.                                              *)

I(opc, dst, src, off, imm) == [opc |-> opc, dst |-> dst, src |-> src, off |-> off, imm |-> imm]
End == I(EXIT, 0, 0, 0, 0)

Bytes == [i \in 1..256 |-> i - 1]
InOrder(opcodes) == LET In(o) == o \in opcodes IN SelectSeq(Bytes, In)

(* Every instruction of a sequence, each behind an entry and before n      *)
(* exits.                                                                  *)
Apart(insns, n) ==
    [pc \in 0..((n + 1) * Len(insns)) - 1 |->
        IF pc % (n + 1) = 0 THEN insns[(pc \div (n + 1)) + 1] ELSE End] @@ << >>
EveryNth(insns, n) == { (n + 1) * i : i \in 0..Len(insns) - 1 }

(* Registers: two of them given, the others distinct small numbers.        *)
Registers(d, a, s, b) ==
    [r \in 0..10 |-> IF r = d THEN a ELSE IF r = s THEN b ELSE 20 + r]

Plainly ==
    [version |-> "V0", text |-> << >>, functions |-> << >>, meter |-> FALSE, tracing |-> FALSE,
     sanitize |-> FALSE, key |-> 0, checkpoint |-> 100, noop_gap |-> NoNoops, noop_rate |-> 0,
     padding |-> 0, entries |-> {0}, inputs |-> {}, budgets |-> {100}]
MCBudgets(p) == p.budgets

-----------------------------------------------------------------------------
(* Arithmetic: every opcode, on pairs of registers that meet the special   *)
(* cases of RAX, RDX and RCX, and on immediates.                           *)

Operands == {<<0, 0>>, <<32768, 65535>>, <<128, 255>>, <<65408, 65535>>, <<65535, 3>>,
             <<300, 7>>, <<7, 300>>, <<40000, 256>>}
RegisterPairs == << <<0, 2>>, <<2, 0>>, <<3, 1>>, <<7, 3>>, <<2, 3>>, <<3, 3>>, <<8, 2>>, <<0, 9>> >>

Arithmetic(v) == InterpreterAlu(v) \cup InterpreterPqr(v)
RegisterForms(v) ==
    InOrder({ o \in Arithmetic(v) : TakesRegister(o) } \ {BE})
ImmediateForms(v) == InOrder({ o \in Arithmetic(v) : ~TakesRegister(o) } \cup {BE})

RegisterProgram(v, d, s) ==
    LET forms == RegisterForms(v)
        insns == [i \in 1..Len(forms) |-> I(forms[i], d, s, 0, 0)]
    IN  [Plainly EXCEPT !.version = v, !.text = Apart(insns, 1), !.entries = EveryNth(insns, 1),
                        !.inputs = { Registers(d, o[1], s, o[2]) : o \in Operands }]

(* Immediates the verifier admits: a width, a shift within the word.       *)
Admitted(opc, imm) ==
    CASE opc \in {LE, BE} -> (CASE imm < 0 -> 16 [] imm < 40 -> 32 [] OTHER -> 64)
      [] opc \in Alu({"LSH", "RSH", "ARSH"}) -> imm % 8
      [] OTHER -> imm
ImmediateProgram(v, d, imm, sanitize, key) ==
    LET forms == ImmediateForms(v)
        insns == [i \in 1..Len(forms) |-> I(forms[i], d, 0, 0, Admitted(forms[i], imm))]
    IN  [Plainly EXCEPT !.version = v, !.text = Apart(insns, 1), !.entries = EveryNth(insns, 1),
                        !.sanitize = sanitize, !.key = key,
                        !.inputs = { Registers(d, a, d, a) : a \in {0, 1, 255, 32768, 65408, 65535, 4000} }]
Immediates == << <<0, 1, FALSE, 0>>, <<2, -1, FALSE, 0>>, <<3, -128, TRUE, 1234>>,
                 <<9, 127, TRUE, -300>>, <<2, 77, TRUE, 30000>>, <<0, -77, TRUE, -30000>> >>

ArithmeticPrograms(v) ==
    [i \in 1..Len(RegisterPairs) |-> RegisterProgram(v, RegisterPairs[i][1], RegisterPairs[i][2])]
    \o [i \in 1..Len(Immediates) |->
          ImmediateProgram(v, Immediates[i][1], Immediates[i][2], Immediates[i][3], Immediates[i][4])]

-----------------------------------------------------------------------------
(* Conditional jumps, each over an exit to another one.                    *)

Compared == {<<5, 5>>, <<128, 255>>, <<255, 127>>, <<65408, 127>>, <<32768, 65535>>,
             <<1, 65535>>, <<256, 0>>, <<40000, 296>>, <<12, 3>>}
JumpForms(class, by_register) == InOrder({ o \in Branches(class) : TakesRegister(o) = by_register })
JumpProgram(v, class, by_register, d, s, imm) ==
    LET forms == JumpForms(class, by_register)
        insns == [i \in 1..Len(forms) |-> I(forms[i], d, IF by_register THEN s ELSE 0, 1, imm)]
    IN  [Plainly EXCEPT !.version = v, !.text = Apart(insns, 2), !.entries = EveryNth(insns, 2),
                        !.meter = TRUE, !.sanitize = ~by_register, !.key = 4321,
                        !.budgets = {1, 2, 9},
                        !.inputs = { Registers(d, c[1], s, c[2]) : c \in Compared }]
JumpPrograms ==
    << JumpProgram("V0", BPF_JMP64, TRUE, 1, 2, 0), JumpProgram("V3", BPF_JMP32, TRUE, 9, 0, 0),
       JumpProgram("V0", BPF_JMP64, FALSE, 2, 3, -1), JumpProgram("V3", BPF_JMP64, FALSE, 7, 3, 77),
       JumpProgram("V3", BPF_JMP32, FALSE, 0, 3, -1), JumpProgram("V4", BPF_JMP32, FALSE, 1, 3, 77) >>

-----------------------------------------------------------------------------
(* Memory: a word is stored, then each access is made and all is read      *)
(* back.                                                                   *)

Sizes == <<"B", "H", "W", "DW">>
Accesses(v, base, value, off, imm) ==
    [i \in 1..4 |-> I(LoadOf(v, Sizes[i]), value, base, off, 0)]
    \o [i \in 1..4 |-> I(StoreImmOf(v, Sizes[i]), base, 0, off, imm)]
    \o [i \in 1..4 |-> I(StoreRegOf(v, Sizes[i]), base, value, off, 0)]
MemoryProgram(v, base, value, off, imm, sanitize, key, meter) ==
    LET accesses == Accesses(v, base, value, off, imm)
        block == [i \in 1..4 |->
            CASE i = 1 -> I(StoreRegOf(v, "DW"), 10, 5, 0, 0)
              [] i = 3 -> I(LoadOf(v, "DW"), 0, 10, 0, 0)
              [] OTHER -> End]
    IN  [Plainly EXCEPT !.version = v, !.sanitize = sanitize, !.key = key, !.meter = meter,
                        !.text = [pc \in 0..47 |-> IF pc % 4 = 1 THEN accesses[(pc \div 4) + 1]
                                                   ELSE block[(pc % 4) + 1]] @@ << >>,
                        !.entries = { 4 * i : i \in 0..11 },
                        !.budgets = {2, 100},
                        !.inputs = { [Registers(base, CellAddress + at, value, 54321)
                                      EXCEPT ![10] = CellAddress, ![5] = 58596] : at \in {-3, -1, 0, 1, 4} }]
MemoryPrograms ==
    << MemoryProgram("V0", 1, 2, 1, -77, FALSE, 0, TRUE),
       MemoryProgram("V0", 3, 6, 0, 100, TRUE, 30000, FALSE),
       MemoryProgram("V2", 9, 4, 3, -1, TRUE, -77, TRUE),
       MemoryProgram("V2", 2, 3, -1, 127, FALSE, 0, FALSE) >>

-----------------------------------------------------------------------------
(* Control flow: whole programs under several configurations.  A register  *)
(* of the inputs may hold the address of a pc.                             *)

AddressOf(pc) == TextStart + InsnSize * pc
AddImm(r, n) == I(BPF_ALU64_STORE + BPF_OP["ADD"], r, 0, 0, n)
JumpNe(r, n, off) == I(BPF_JMP64 + BPF_JUMP["JNE"], r, 0, off, n)
CallImmediate(src, imm) == I(CALL_IMM, 0, src, 0, imm)
DivideBy(v, d, s) ==
    I(IF EnablePqr(v) THEN BPF_PQR + BPF_PQR_64 + BPF_X + BPF_PQR_OP["SDIV"]
      ELSE BPF_ALU64_STORE + BPF_X + BPF_OP["DIV"], d, s, 0, 0)

Program(v, insns, functions, inputs) ==
    [Plainly EXCEPT !.version = v, !.functions = functions, !.inputs = inputs,
                    !.text = [pc \in 0..Len(insns) - 1 |-> insns[pc + 1]] @@ << >>]

(* A wide constant, a syscall, a call by key and one by register; the      *)
(* register leads into the text, to the second slot of the constant or     *)
(* outside.                                                                *)
Calling ==
    Program("V0",
        << I(LD_DW_IMM, 1, 0, 0, 3), I(0, 0, 0, 0, 2), CallImmediate(0, 5), CallImmediate(0, 7),
           JumpNe(0, 0, 1), AddImm(0, 1), I(CALL_REG, 0, 0, 0, 3), End,
           AddImm(6, 1), CallImmediate(0, 6), End >>,
        7 :> 8,
        { Registers(3, a, 2, c) : a \in {AddressOf(8), AddressOf(8) + 5, AddressOf(1), AddressOf(-1),
                                         AddressOf(11)}, c \in {0, 3} })

(* A syscall that fails, at depth one; a key that is both a syscall and a  *)
(* function.                                                               *)
FailingCall ==
    Program("V0",
        << CallImmediate(0, 7), End, AddImm(1, 1), CallImmediate(0, 5), AddImm(9, 3), End >>,
        (7 :> 2 @@ 5 :> 4), { Registers(1, a, 2, 1) : a \in {7, 8} })

(* Recursion until the frames are used up, or while a register counts.     *)
Recursion ==
    Program("V3", << AddImm(1, -1), JumpNe(1, 0, 1), End, CallImmediate(1, -4), AddImm(0, 1), End >>,
            << >>, { Registers(1, a, 7, 9) : a \in {1, 3, 4} })

(* A loop.                                                                 *)
Loop ==
    Program("V0", << AddImm(0, 1), AddImm(1, -1), JumpNe(1, 0, -3), I(JA, 0, 0, 0, 0), End >>,
            << >>, { Registers(1, a, 2, 1) : a \in {1, 3} })

(* Calls by register of the other versions, and frames moved by hand.      *)
ByRegister(v) ==
    Program(v, << AddImm(10, 16),
                  I(CALL_REG, IF v = "V3" THEN 4 ELSE 0, IF v = "V2" THEN 4 ELSE 0, 0,
                    IF v = "V1" THEN 4 ELSE 0),
                  AddImm(0, 1), End, AddImm(10, 16), DivideBy(v, 0, 8), End >>,
            << >>, { Registers(4, a, 8, b) : a \in {AddressOf(4), AddressOf(7), 0}, b \in {0, 3, 65535} })

(* An access that fails below a call.                                      *)
FailingAccess(v) ==
    Program(v, << CallImmediate(0, 7), End, I(StoreImmOf(v, "H"), 3, 0, 1, 77),
                  I(LoadOf(v, "W"), 6, 3, 0, 0), End >>,
            7 :> 2, { Registers(3, CellAddress + a, 6, 1) : a \in {0, 4, 5, 7} })

(* A key that is neither; the end of the text without an exit; an          *)
(* instruction without code.                                               *)
Unresolved(v) == Program(v, << AddImm(0, 1), CallImmediate(0, 99), End >>, << >>, {Registers(0, 1, 1, 1)})
Overrun == Program("V0", << AddImm(0, 1), AddImm(1, 1) >>, << >>, {Registers(0, 1, 1, 1)})
NoCode == Program("V0", << I(LE, 0, 0, 0, 64), AddImm(1, 1), I(LE, 1, 0, 0, 64), End >>, << >>,
                  {Registers(0, 300, 1, 1)})

ControlPrograms ==
    << Calling, FailingCall, Recursion, Loop, ByRegister("V1"), ByRegister("V2"), ByRegister("V3"),
       FailingAccess("V0"), FailingAccess("V2"), Overrun, NoCode >>
Untraceable == << Unresolved("V0"), Unresolved("V3") >>

Metered(p) == [p EXCEPT !.meter = TRUE, !.budgets = 0..12]
Unmetered(p) == [p EXCEPT !.noop_gap = 0, !.noop_rate = 1, !.checkpoint = 0]
Checked(p) == [Metered(p) EXCEPT !.checkpoint = 1, !.sanitize = TRUE, !.key = 12345,
                                 !.noop_gap = 1, !.noop_rate = 1]
Traced(p) == [Metered(p) EXCEPT !.tracing = TRUE, !.checkpoint = 2, !.budgets = {2, 5, 12},
                                !.sanitize = TRUE, !.key = -4321, !.padding = 13]
Configured(programs, With(_)) == [i \in 1..Len(programs) |-> With(programs[i])]

ControlProgramsConfigured ==
    Configured(ControlPrograms \o Untraceable, Metered)
    \o Configured(ControlPrograms \o Untraceable, Unmetered)
    \o Configured(ControlPrograms \o Untraceable, Checked) \o Configured(ControlPrograms, Traced)

MCPrograms ==
    ArithmeticPrograms("V0") \o ArithmeticPrograms("V2") \o JumpPrograms \o MemoryPrograms \o ControlProgramsConfigured
=============================================================================
