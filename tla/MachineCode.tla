----------------------------- MODULE MachineCode -----------------------------
(***************************************************************************)
(* A compiled program on the host processor, instruction by instruction:   *)
(* JitProgram::invoke enters the emitted code, the code calls back into    *)
(* Rust, and its epilogue returns.  ref is the interpreter on the same     *)
(* program; it takes its step when the processor begins the code of the    *)
(* same instruction.                                                       *)
(***************************************************************************)
EXTENDS JitCode, X86Cpu

CONSTANTS
    Programs,          \* executables, each with its entry pcs and inputs
    Budgets(_),        \* the instruction budgets of one
    EbpfVm, StackTop, StackWords, HostReturn, Clobbered

VARIABLES
    program,    \* which executable
    machine,    \* the processor and the memory the code addresses
    world,      \* what only Rust touches: context object, memory, trace
    ref,        \* the interpreter
    stage       \* "ready", "running" or "done"

vars == <<program, machine, world, ref, stage>>

-----------------------------------------------------------------------------
(* The executables and their compiled code: its bytes, the pc section at   *)
(* its address, and where the code of each pc begins, the last one being   *)
(* the bumper.  (A name of their own has TLC compute them once; so does    *)
(* f @@ << >>, which is f.)                                                *)

Executables == Programs

ImageWith(p, j) ==
    LET pcs == Pcs(p)
        entry == [pc \in pcs \cup {InsnCount(p)} |->
                     TextSection + (IF pc \in pcs THEN j.pc_section[pc] ELSE j.bumper)] @@ << >>
    IN  [jit |-> j, entry |-> entry,
         pc_table |-> [at \in { PcSection + 4 * pc : pc \in pcs } |->
                          j.pc_section[(at - PcSection) \div 4]] @@ << >>,
         regular |-> { entry[pc] : pc \in { q \in DOMAIN entry : ~IsSecondSlot(p, q) } }]
ImageOf(p) == ImageWith(p, compile(p))
Image == [i \in DOMAIN Executables |-> ImageOf(Executables[i])] @@ << >>

Entry(image, pc) ==
    IF pc \in DOMAIN image.entry THEN image.entry[pc] ELSE TextSection + image.jit.bumper

RustFunctions ==
    { LoadFunction(s) : s \in AccessSizes } \cup { StoreFunction(s) : s \in AccessSizes }
    \cup { SyscallFunction(k) : k \in SyscallKeys } \cup {TracePush}

-----------------------------------------------------------------------------
(* The memory of the virtual machine and the host stack, word by word.     *)

At(slot) == EbpfVm + RuntimeEnvironmentSlot[slot]
ErrorPc  == At("Registers") + 88
VmWords  == { At(slot) : slot \in {"HostStackPointer", "CallDepth", "PreviousInstructionMeter",
                                   "DueInsnCount", "ProgramResult"} }
            \cup { At("ProgramResult") + 8, ErrorPc }
HostStack == { StackTop - 8 * n : n \in 1..StackWords }

Result(m) ==
    IF m.mem[At("ProgramResult")] = OkDiscriminant THEN Ok(m.mem[At("ProgramResult") + 8])
    ELSE Err(NameIn(ErrorKind, m.mem[At("ProgramResult") + 8]))
WithResult(m, result) ==
    [m EXCEPT !.mem[At("ProgramResult")] =
                  IF result[1] = "Ok" THEN OkDiscriminant ELSE ErrDiscriminant,
              !.mem[At("ProgramResult") + 8] =
                  IF result[1] = "Ok" THEN result[2] ELSE ErrorKind[result[2]]]

-----------------------------------------------------------------------------
(* execute_program up to invoke, then the assembly that calls the code:    *)
(* rbx and rbp are on the stack, the return address below them.            *)

InitFor(p) ==
    /\ \E entry \in p.entries, registers \in p.inputs, budget \in Budgets(p) :
          /\ world = [remaining |-> budget, cell |-> 0, trace |-> << >>]
          /\ ref = [reg |-> registers, pc |-> entry, call_depth |-> 0, frames |-> << >>,
                    cell |-> 0, remaining |-> budget,
                    previous |-> budget, due |-> 0,
                    registers11 |-> entry, program_result |-> Ok(0), stopped |-> FALSE,
                    trace |-> << >>]
    /\ machine = << >>
    /\ stage = "ready"
Init == program \in DOMAIN Executables /\ InitFor(Executables[program])

HostStackPointer == StackTop - 24
Invoke ==
    LET registers(r) == ref.reg[CHOOSE k \in 0..10 : Mapped(k) = r]
        memory == [a \in VmWords \cup HostStack |->
            CASE a = At("HostStackPointer") -> HostStackPointer
              [] a = At("PreviousInstructionMeter") -> ref.previous
              [] a = ErrorPc -> ref.pc
              [] a = HostStackPointer -> HostReturn
              [] a \in HostStack \ {HostStackPointer} -> Clobbered
              [] OTHER -> 0]
    IN  /\ stage = "ready"
        /\ machine' = [reg |-> [r \in 0..15 |->
                           CASE r = RSP -> HostStackPointer
                             [] r = RBP -> 0
                             [] r = REGISTER_PTR_TO_VM -> EbpfVm + 8 * RuntimeEnvironmentKey
                             [] r = REGISTER_INSTRUCTION_METER -> U64(ref.previous + ref.pc)
                             [] r = REGISTER_SCRATCH -> ref.pc
                             [] OTHER -> registers(r)],
                       mm0 |-> 0, mem |-> memory, rip |-> Entry(Image[program], ref.pc),
                       defined |-> FALSE, equal |-> FALSE, below |-> FALSE, less |-> FALSE,
                       fault |-> FALSE]
        /\ stage' = "running"
        /\ UNCHANGED <<program, world, ref>>

-----------------------------------------------------------------------------
(* The processor executes one instruction of the emitted code.             *)

Running == stage = "running" /\ ~machine.fault
AtEntry(image) == ~ref.stopped /\ machine.rip = Entry(image, ref.pc)

(* Code of length zero (a little-endian swap of 64 bits) has the same      *)
(* entry as the instruction behind it.                                     *)
AdvancedFrom(p, image, once) ==
    IF ~once.stopped /\ once.pc # ref.pc /\ Entry(image, once.pc) = machine.rip
    THEN Step(p, once) ELSE once
Advanced(p, image) == AdvancedFrom(p, image, Step(p, ref))

(* Outside of the code and of Rust it is lost.                             *)
StepIn(p, image) ==
    LET offset == machine.rip - TextSection
    IN  /\ Running
        /\ machine.rip \notin RustFunctions \cup {HostReturn}
        /\ machine' = IF offset \in DOMAIN image.jit.code
                      THEN Exec(image.pc_table, machine, image.jit.code[offset])
                      ELSE Faulted(machine)
        /\ ref' = IF AtEntry(image) THEN Advanced(p, image) ELSE ref
        /\ UNCHANGED <<program, world, stage>>
StepProcessor == StepIn(Executables[program], Image[program])

-----------------------------------------------------------------------------
(* Functions of Rust, called with the System V convention: a stack aligned *)
(* to 16 bytes before the return address, arguments in registers.  They    *)
(* leave nothing in the registers a caller saves, nor below the stack      *)
(* pointer.                                                                *)

Argument(n) == machine.reg[ARGUMENT_REGISTERS[n+1]]
Called(function) == Running /\ machine.rip = function

Returned(m) ==
    LET top == m.reg[RSP]
        saved == { CALLER_SAVED_REGISTERS[i] : i \in 1..Len(CALLER_SAVED_REGISTERS) }
    IN  [Unflagged(m) EXCEPT
                  !.rip = m.mem[top],
                  !.reg = [r \in DOMAIN @ |-> IF r = RSP THEN top + 8
                                              ELSE IF r \in saved THEN Clobbered ELSE @[r]],
                  !.mem = [a \in DOMAIN @ |-> IF a \in HostStack /\ a <= top THEN Clobbered ELSE @[a]],
                  !.mm0 = Clobbered]

(* What the callee finds when the caller kept to the convention.           *)
WellCalled(arguments) == machine.reg[RSP] % 16 = 8 /\ arguments

(* MemoryMapping::load and store                                           *)
MemoryArguments == Argument(0) = At("ProgramResult") /\ Argument(1) = At("MemoryMapping")
MemoryLoad(size) ==
    LET addr == Argument(2)
        result == IF InCell(addr, AccessLen[size]) THEN Ok(Loaded(world.cell, addr, size))
                  ELSE Err("AccessViolation")
    IN  /\ Called(LoadFunction(size))
        /\ machine' = IF WellCalled(MemoryArguments) THEN Returned(WithResult(machine, result))
                      ELSE Faulted(machine)
        /\ UNCHANGED <<program, world, ref, stage>>
MemoryStore(size) ==
    LET addr == Argument(3)
        inside == InCell(addr, AccessLen[size])
    IN  /\ Called(StoreFunction(size))
        /\ machine' = IF WellCalled(MemoryArguments)
                      THEN Returned(WithResult(machine, IF inside THEN Ok(0)
                                                        ELSE Err("AccessViolation")))
                      ELSE Faulted(machine)
        /\ world' = IF inside THEN [world EXCEPT !.cell = Stored(@, addr, size, Argument(2))] ELSE world
        /\ UNCHANGED <<program, ref, stage>>

(* A syscall, in the wrapper of declare_builtin_function.                  *)
Syscall(key) ==
    LET done == Builtin(Executables[program], world.remaining,
                        machine.mem[At("PreviousInstructionMeter")],
                        machine.mem[At("DueInsnCount")], [i \in 1..5 |-> Argument(i)])
        settled == [machine EXCEPT !.mem[At("PreviousInstructionMeter")] = done.previous]
    IN  /\ Called(SyscallFunction(key))
        /\ machine' = IF WellCalled(Argument(0) = EbpfVm + 8 * RuntimeEnvironmentKey)
                      THEN Returned(WithResult(settled, done.result)) ELSE Faulted(machine)
        /\ world' = [world EXCEPT !.remaining = done.remaining]
        /\ UNCHANGED <<program, ref, stage>>

(* Vec::push of a trace entry: twelve words, the last one the pc.          *)
PushTrace ==
    LET word(n) == machine.mem[Argument(1) + 8 * n]
    IN  /\ Called(TracePush)
        /\ machine' = IF WellCalled(Argument(0) = At("RegisterTrace"))
                      THEN Returned(machine) ELSE Faulted(machine)
        /\ world' = [world EXCEPT !.trace = Append(@, <<word(11), [r \in 0..10 |-> word(r)]>>)]
        /\ UNCHANGED <<program, ref, stage>>

(* Back in execute_program: what is due is consumed.                       *)
Settled(p, remaining, due) == IF p.meter THEN Consume(remaining, due) ELSE remaining
Finish ==
    /\ Called(HostReturn)
    /\ stage' = "done"
    /\ world' = [world EXCEPT
                    !.remaining = Settled(Executables[program], @, machine.mem[At("DueInsnCount")])]
    /\ UNCHANGED <<program, machine, ref>>

Next ==
    \/ Invoke \/ StepProcessor \/ PushTrace \/ Finish
    \/ \E size \in AccessSizes : MemoryLoad(size) \/ MemoryStore(size)
    \/ \E key \in SyscallKeys : Syscall(key)

Spec == Init /\ [][Next]_vars
-----------------------------------------------------------------------------
(* Properties.                                                             *)

(* The code of the program, and what it calls, is entered and left as the  *)
(* processor and the calling convention want it: rip is always at the      *)
(* start of an emitted instruction whose bytes decode to what was meant,   *)
(* no jump depends on flags an instruction left undefined, the stack stays *)
(* inside what was reserved and is aligned at every call into Rust, and no *)
(* division traps (x86.rs emit; jit.rs relative_to_anchor, resolve_jumps,  *)
(* emit_rust_call, emit_product_quotient_remainder).                       *)
NeverFaults == stage = "ready" \/ ~machine.fault

OutOfBudget == ref.stopped /\ ref.program_result = Err("ExceededMaxInstructions")

(* The caller's registers of every open frame, where the epilogue of       *)
(* emit_internal_call will pop them.                                       *)
FrameOnStack(k) ==
    LET base == HostStackPointer - 48 * k
        frame == ref.frames[k]
    IN  /\ machine.mem[base + 8] = frame.fp
        /\ \A r \in ScratchRegs : machine.mem[base + 16 + 8 * (9 - r)] = frame.saved[r]

SameState(p) ==
    /\ \A r \in 0..10 : machine.reg[Mapped(r)] = ref.reg[r]
    /\ world.cell = ref.cell /\ world.trace = ref.trace
    /\ machine.mem[At("CallDepth")] = ref.call_depth
    /\ machine.reg[RSP] = HostStackPointer - 48 * ref.call_depth
    /\ \A k \in 1..ref.call_depth : FrameOnStack(k)
    /\ p.meter => machine.reg[REGISTER_INSTRUCTION_METER] = U64(ref.previous - ref.due + ref.pc)

SameOutcome(p) ==
    /\ ref.stopped
    /\ Result(machine) = ref.program_result
    /\ world.remaining = Settled(p, ref.remaining, ref.due)
    /\ machine.reg[RSP] = HostStackPointer + 8
    /\ ~OutOfBudget => /\ world.cell = ref.cell /\ world.trace = ref.trace
                       /\ machine.mem[At("CallDepth")] = ref.call_depth
                       /\ machine.mem[ErrorPc] = ref.registers11

ExecutesLike(p, image) ==
    /\ (stage = "running" /\ machine.rip \in image.regular) =>
           OutOfBudget \/ (AtEntry(image) /\ SameState(p))
    /\ stage = "done" => SameOutcome(p)

(* The emitted code does to registers, memory, stack, meter and trace      *)
(* exactly what the interpreter does, instruction by instruction: whenever *)
(* the processor reaches the code of an instruction it is the one the      *)
(* interpreter stands at and both hold the same state, and both end with   *)
(* the same result, error pc and instruction count.  Once the interpreter  *)
(* is out of budget the code may run on to its next check, and must then   *)
(* report the same (jit.rs compile and emit_*, interpreter.rs step).       *)
ExecutesLikeInterpreter == ExecutesLike(Executables[program], Image[program])

CallsBoth(p, pc) ==
    LET insn == p.text[pc]
    IN  insn.opc = CALL_IMM /\ CallsSyscall(p, insn) /\ CallsFunction(p, pc, insn)
Fits(p, j) ==
    /\ j.error = "none"
    /\ j.offset - HostBase <= TextSectionLength(p)
    /\ p.noop_gap = NoNoops =>
          /\ j.empty_bytes <= MAX_EMPTY_PROGRAM_MACHINE_CODE_LENGTH
          /\ \A pc \in DOMAIN j.instruction_bytes :
                /\ \/ CallsBoth(p, pc)
                   \/ j.instruction_bytes[pc] <= MAX_MACHINE_CODE_LENGTH_PER_INSTRUCTION
                /\ j.checkpoint_bytes[pc] <= MACHINE_CODE_PER_INSTRUCTION_METER_CHECKPOINT

(* What the compiler emits fits the room JitCompiler::new reserves: no     *)
(* instruction, checkpoint or set of subroutines is longer than its        *)
(* constant says (jit.rs MAX_MACHINE_CODE_LENGTH_PER_INSTRUCTION and its   *)
(* neighbours), and every program of supported instructions compiles.  A   *)
(* call of a key that is both a syscall and a function, which the loader   *)
(* never leaves, may be longer.                                            *)
CodeFits == Fits(Executables[program], Image[program].jit)
=============================================================================
