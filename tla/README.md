# A TLA+ model of the SBPF virtual machine

This project models the virtual machine for SBPF programs in `src/src`: what its
verifier accepts, how its interpreter and its JIT compiled code execute a program and
account for the instructions, down to the bytes the compiler emits; how it maps the
guest's memory, loads an ELF file and keeps compiled code; how a debugger drives it; and
how its tools assemble, analyse and print a program.  TLC checks the modules on small
instances; TLAPS proves the safety properties of verifier, interpreter, compiled code,
their memory and the debugger, that both engines implement one abstract machine and that
they agree, for every configuration, program and budget.

## The system

| part | state | operations | what makes it hard |
|---|---|---|---|
| instruction set, versions (`ebpf.rs`, `program.rs`) | – | decode an instruction, features of a version | the same opcode means different things in different versions |
| verifier (`verifier.rs`) | `insn_ptr` | one check per instruction, the scan | lddw takes two slots; jumps are checked before their target is scanned |
| interpreter (`interpreter.rs`) | registers, pc, call frames, due instructions | `step`, `push_frame`, `dispatch_syscall` | no run-time checks of what the verifier promises; meter shared with syscalls |
| virtual machine (`vm.rs`) | call depth and frames, meter copies, result, trace | `new`, `execute_program`, `invoke_function` | state left over from one execution to the next |
| JIT compiler (`jit.rs`, `x86.rs`) | last validation, anchors; at run time the meter, host stack | `compile`, emitted code of each instruction, subroutines | the meter is a pc, adjusted at branches only, validated at checkpoints only; host registers are borrowed |
| memory mapping (`memory_region.rs`) | regions, Eytzinger lookup, cache | constructors, `map`, `load`, `store`, `replace_region`, violation handler | search arithmetic, stale cache entries, gapped regions, regions growing at run time |
| function registries (`program.rs`) | key to function map | register, unregister, look up | hashes that collide |
| ELF loader (`elf.rs`, `elf_parser`) | sections, relocations | `load`, strict and lenient parser, `relocate` | arithmetic over offsets from the file, relocations in place |
| aligned memory (`aligned_memory.rs`) | buffer, alignment offset | constructors, `fill_write`, `write` | a zeroed tail that is exposed without being written |
| JIT memory (`memory_management.rs`, `JitProgram`) | pages and their protection | allocate, seal, drop | an error between two system calls |
| static analysis (`static_analysis.rs`) | graph of basic blocks | blocks, components, dominators, data flow, listing | iterative forms of recursive algorithms |
| debugger (`debugger.rs`) | breakpoints, interpreter state | resume, step, read and write | a stub outside the repository drives it |
| assembler, disassembler, builder | labels, registry, slots | two passes; one arm per opcode | three descriptions of one instruction set |

`Executable::verify` runs the verifier, `Executable::jit_compile` the compiler.
`EbpfVm::execute_program` runs either engine on the same state of the VM; both call
syscalls, which change the context object's meter, and reach memory through
`MemoryMapping`.  The tests run every program through both engines and assert that they
agree.  `Executable::load` parses a file with `Elf64::parse`, relocates it in place in an
`AlignedMemory`, registers its functions and gathers its read-only sections;
`new_from_text_bytes` takes what the assembler made.  `Executable::jit_compile` seals what
the compiler wrote into pages of a `JitProgram`.  `Analysis::from_executable` reads a
loaded executable.

## Modules

| module | models |
|---|---|
| `Sbpf` | instructions by what the verifier and the engines distinguish, programs, the effect of an instruction |
| `Ebpf` | opcodes bit by bit, features of every version |
| `VerifierRules` | the checks of one instruction; `Accepts`, the slot-by-slot meaning of an accepted program |
| `Verifier` | `RequisiteVerifier::verify`, one action per turn of its loop |
| `Execution` | the abstract machine: what an execution costs, returns and reports; `After`, the same as a function from state to state |
| `Interpreter` | `execute_program` with the interpreter, and its mapping to `Execution` |
| `Jit` | `compile`, `execute_program` with what it emitted, and its mapping to `Execution` |
| `Differential` | both engines on one program and budget |
| `MachineWords` | words of every width with signs, overflow and bits |
| `InsnSemantics` | `Interpreter::step` for every opcode on such words |
| `X86`, `X86Cpu` | `x86.rs`: the constructors and `emit`; the processor (external) |
| `JitCode` | every `emit_*` function, arm and subroutine of `compile`, byte by byte |
| `MachineCode` | a compiled program on the processor, beside the interpreter |
| `Debugger` | the loop of `debugger.rs` and its handlers around `Interpreter` |
| `MemoryRegion` | the range of a region, `vm_to_host` |
| `MemoryMapping` | both mappings, the cache, `replace_region`, the violation handler |
| `FunctionRegistry` | `FunctionRegistry` and `BuiltinProgram::register_function`, as operators on maps |
| `ElfParser` | `Elf64::parse` and `Executable::validate` |
| `LenientLoader` | `relocate` and the registration of functions and entrypoint |
| `RoSections` | `parse_ro_sections`, `get_ro_region` |
| `StrictLoader` | `load_with_strict_parser` |
| `Executable` | `Executable::load`: the four above, composed |
| `AlignedMemory` | `AlignedMemory` over a vector the allocator places and moves |
| `JitPages` | `JitProgram::new`, `seal`, `drop` and the libc calls below them |
| `BasicBlocks` | `split_into_basic_blocks`, `link_cfg_edges` |
| `ControlFlow` | components, topological order, super root, dominators |
| `DataFlow` | data flow within and between basic blocks |
| `Assembly` | one instruction for the assembler, the disassembler and the builder |
| `Toolchain` | assemble, `new_from_text_bytes`, analyse, disassemble, assemble again |
| `VerifierLemmas` | what acceptance implies for the instruction at a pc |
| `VerifierProofs`, `InterpreterProofs`, `JitProofs`, `DifferentialProofs`, `MemoryMappingProofs`, `AlignedMemoryProofs`, `JitPagesProofs` | the proofs |
| `MCConfig` and the other `MC` modules | the instances TLC checks |

### Data abstractions

* In `Sbpf`, and so in both engines' step by step models, the registers are four: `R0`,
  `R1` for the arguments r1..r5, `R6` for r6..r9 which a call saves, and `FP` for r10.  A
  register holds one of `Word` values.  Opcodes are grouped by what the verifier and the
  engines treat differently; shifts by a constant are two groups, for the verifier bounds
  the constant by the width.  The result of arithmetic that cannot fail is the constant
  operator `Arith`; division, signed division and their faults are computed.
* In `InsnSemantics`, `JitCode` and `MachineCode` all eleven registers and all opcodes are
  there.  A byte has `ByteBits` bits, so u64 has 16 with two; every width keeps its place
  between the others, with its boundary values.
* The memory behind the mapping is one cell; `Readable` and `Writable` are the addresses
  that reach it.  `MemoryMapping` models the translation itself.
* A syscall is what it costs, whether it fails and what it returns, as functions of its
  arguments.
* The registry the engines see has the pc of a function as its key.  The loaders use
  `FunctionRegistry`, with `hash_symbol_name` an arbitrary function.
* A file is its header, tables and sections with addresses and sizes in small units; a
  string is a name or `Unreadable`.  Arithmetic the parser checks for overflow is
  unbounded here and ends in the comparison with the length of the file.
* A text is what `asm_parser.rs` makes of it: statements with names, numbers and registers.

### The interpreter

One action is one call of `Interpreter::step`: `StepExceeded` and `StepOverrun` end before
the match on the opcode, `StepData`, `StepLoadDoubleWord`, `StepJump`, `StepCallReg`,
`StepCallImm`, `StepExit` and `StepUnsupported` are its arms.  `ExecuteProgram` and
`Finish` are the code of `execute_program` before and after the loop.  Programs are those
the verifier accepts, with the meter and tracing enabled.

A VM executes again however its last execution ended.  Nothing in `execute_program` resets
`call_depth`, which an error leaves as it is, so that the next execution begins with calls
that nobody is in: an `EXIT` at its outermost level returns into them, and if they take
every frame its first call indexes `call_frames` out of bounds (`CallFunction`).  The history
variable `leftover` is the depth at which the execution began.  `FramesNested` speaks of all
calls, those left over included; `FreeFrame` says that a panic needs a `leftover` of
`MaxCallDepth`; `ImplementsExecution` covers such executions as well, but for their first
step and for that panic, which the abstract machine, beginning without calls, does not know.

### JIT compiled code

`EmitInstruction` is one turn of the loop of `compile`; it keeps where a checkpoint is
emitted.  A `Run` action is the emitted code of one instruction together with the
subroutines it enters.  `meter` is `REGISTER_INSTRUCTION_METER`: the remaining budget plus
the pc, so straight-line code leaves it alone; `Profile` and `UndoProfile` adjust it at
branches modulo `MeterWord`.  The host stack holds, per call, what the call site pops.
Calls left over from an execution that failed are on no host stack: compiled code that
exits at their depth returns to `execute_program` past its epilogue, and leaves result and
meter as they are (`RunExit`).  `HostStackMatchesDepth` counts the frames on top of
`leftover`, and `JitImplementsExecution` is about executions that begin at depth zero.

### Refinement

`Execution` charges one unit per instruction and stops at the first it cannot pay for.
The interpreter's budget left is `previous_instruction_meter - due_insn_count`; the JIT
compiled code's is `meter - pc`, which is 0 once the code has run past its budget.  From
then on registers, frames and memory cannot be observed and are mapped to `Dead`, since
the JIT compiled code may execute up to `CheckpointDistance` more instructions.

### Machine code

`JitCode` composes the code of a program from `X86` instructions as `compile` does, and
`emit` turns each into its fields; `Length` is what it takes in the text section.  Jumps
are placed and resolved as in `relative_to_anchor`, `relative_to_target_pc` and
`resolve_jumps`.  `MachineCode` enters that code as `JitProgram::invoke` does and takes one
action per host instruction; a call into Rust is one action that leaves every register it
may with `Clobbered`.  The reference beside it takes one step of `InsnSemantics` whenever
the processor begins the code of an instruction.  The programs hold every opcode of a
version with several register pairs and operands, jumps in V0, V3 and V4, loads and
stores in both classes, and calls, syscalls and errors with the meter on and off, constants
sanitised or not, noops, padding, and tracing.

### The debugger

`execute` is one loop over the state of the gdbstub session.  In the idle state the client
reads and writes registers and memory, sets and removes breakpoints, resumes, steps and
detaches; while the program runs it can interrupt.  A step of the interpreter and the
report of how it stopped are two actions nothing comes between.  Every execution begins
with an `Interpreter` of its own, without breakpoints.  Three history variables say what the
client has done: `fresh` (resumed at this instruction), `disturbed` (wrote, resumed an ended
program, or left) and `detached` (left this execution).  A fourth, `hidden`, says what the
debugger has done: a breakpoint met in the single step that ended the program was reported
in place of the end, and the program is there to be resumed.  `Undisturbed` names that
report (`EndHidden`) as the one way in which a client that only looks, steps and sets
breakpoints changes an execution, and follows the program behind it.  gdbstub is external.

### The loader

`Executable` composes the parts: `Load` reads the flags and chooses a parser, and a step
of the whole is a step of the part that `phase` names.  Each part is an instance over the
variables of the composition; `Elf` and `Sections` are what the later parts see of the
file through what the earlier ones found (tables of as many entries as their sections
hold, names only where there is a string table).  `ElfParser` takes one action per header,
section and name, and one for the dynamic table.  `LenientLoader` takes one action per
relative call, relocation and symbol; the text and the data a relocation may write are
words that hold an immediate or an address.  `RoSections` keeps, for every byte of the
region, the section it came from.  `StrictLoader` takes one action per program header and
per symbol.  `LoaderAssumptions` is the contract between parser and the rest: what
`relocate` and `parse_ro_sections` unwrap and index without a check.

`CallsResolve` has a case for symbols with the name entrypoint.  The loader registers the
entry of the file header under the hash of that name behind all relocations, and removes
what was there: a call relocated to such a symbol leads to the entry, also if the symbol
has another address.

### Memory and pages

`MemoryMapping` constructs either mapping of a set of regions and then takes accesses of
the program, translations of syscalls, replacements by the access violation handler and by
the host.  The walk that fills the Eytzinger order, the descent of the search and the way
back from where it ends (`EytzingerWalk`, `Descend`, `Strip`) are recursive functions of the
indices the code computes.  The aligned constructor takes one action per turn of its loop.

`AlignedMemory` lets the allocator put a vector at any address and move it when it
grows; `write_unchecked` is called with room left.  In `JitPages` several executables
compile and drop side by side.  Every libc call is an action of its own, which may fail
and be repeated `RETRY_COUNT` times; a failed attempt leaves the pages as they are.

### Static analysis and tools

A program is one the verifier accepted, its registry a set of pcs.  `ControlFlow` takes
one action per node entered, edge followed and node left of the depth-first search, and
one per block of a pass for dominators.  When the search for the super root is done
(`SearchDone`), blocks nothing leads to have become functions of the analysis, with the name
`function_` and their pc (`functions`).  `DataFlow` continues where it ends, one action
per block of a pass.  Registers are two, those a call overwrites and those it saves.

`Toolchain` puts `assemble` ahead of the analysis, one action per statement and pass, and
`disassemble` behind it, one action per instruction; the listing is then assembled again.
Programs of the builder enter where the assembler's are loaded.  A directive other than
`.fill` takes no slot in the first pass and is the error of the second (`EmitDirective`).
`Ambiguous` says what a listing cannot express: two blocks of one label, a function in the
second half of a lddw, and calls behind a lddw with static syscalls (see `analysis_calls`).
Two blocks have one label when two functions have one name, or when a function is called
what the analysis calls a block nothing leads to: of `call function_3`, `exit`,
`function_3: exit`, `exit` the third and the fourth instruction are both printed as
`function_3`.

## Runs

| run | shows |
|---|---|
| `engines` | every accepted text of three slots in V0, V2 and V3, up to two executions of one VM, the second after an error too, in the interpreter and, unless the text ends in a call, compiled: the meter is consistent, frames nest, saved frames are stable, nothing the verifier should prevent happens, and a call panics only where an earlier execution left no frame; compiled code runs past its budget by at most the checkpoint distance and keeps host stack and call depth in step; both end, both implement `Execution`, and they agree on result, memory, cost, final pc and trace of the first execution |
| `differential_call_last` | violated: a program whose last instruction is a call |
| `machine_code` | the emitted bytes on the processor do what the interpreter does, never fault, and fit the room reserved for them |
| `debugger` | breakpoints stop, ends are reported, looking changes nothing but where a breakpoint hides the end, control comes back |
| `verifier` | every text of up to three slots: the scan accepts exactly `Accepts` and blames the first fault |
| `memory_mapping` | sets of up to four regions in 16 addresses: the owner of an address is found whatever was cached, grown or replaced, no two addresses share a byte, an access is that of its bytes |
| `memory_mapping_gaps` | violated: an access from a frame into the gap behind it |
| `load` | `Executable::load` with either parser: an accepted file has tables and sections that share no byte and can be read, and meets what the rest of the loader assumes; calls by offset and by symbol find their function, addresses are moved into the first region once, the region holds each read-only section at its address; a file of the strict parser has its segments side by side and its entrypoint in the code |
| `aligned_memory` | contents are what was written, memory not allocated as zeroes is aligned, no write moves it |
| `jit_pages` | two executables, any failures: no page held twice, none lost, compiled code sealed, every call returns |
| `static_analysis` | loops, joins and functions of up to five instructions, and texts and built programs with every kind of statement: the passes of the assembler agree, components and topological order are exact, dominators dominate, and are immediate where components are entered at their head; data flow connects exactly the writers whose value can reach an instruction; the passes end; a listing is its program again |
| `analysis_calls` | violated: a call behind a lddw with static syscalls |

Bounds.  Three slots hold a call, its callee and a return, a loop with a conditional exit,
a recursion, and a lddw with the instruction behind it.  Three call levels reach
`CallDepthExceeded` from a call that returned before, and an execution behind that error finds
no frame.  Budgets of `engines` are none, one and seven.  None is where
compiled code overruns the furthest.  One ends in a first call, so that an execution with
seven can begin with a call left over and return into it.  Seven is what nested calls, each
made twice, cost exactly; loops of two and three instructions exceed it in the middle of a
turn, and a syscall's cost moves that point.  A checkpoint distance of
two and three slots let straight-line code run past the budget.  Words of 16 bits hold
every width with its sign and its carry.  Five commands let a client set a breakpoint, run
into it, look, step and leave; a second execution shows what is left of the first session.  Four regions make the search tree three levels deep and uneven; two cache slots make
the third search evict; four address
bits let ranges saturate at the end of the address space.  Two relocations over three
instructions let one read or rewrite what another wrote.  The hashes are injective, or let
a function meet a syscall, or two functions and two syscalls meet one another.  Three
sections suffice for a gap, an overlap and a section between two others.  Five pages let a
program be mapped where another gave pages back.  Five blocks make a component with two
entries and a loop within a loop.

Fairness.  `WF` of each engine's own steps (`BothSpec`): one thread runs the loop of
`execute_program` and waits for nobody.  Starting an execution is not fair.
`from_executable` is the work of one thread as well, and its steps are all fair together
(`Analyse` in `ToolSpec`).  Under the debugger the loop of `execute` is fair, the client's
commands are not.  In `JitPages` each executable's own steps are fair: a thread inside
`jit_compile` or `drop` goes on whatever the others do.  Success of a libc call is not
assumed; that calls return rests on the retry count.

Deadlock is not checked where the system stops: an execution, a verification, a load, an
analysis, a debugging session and a mapping that could not be constructed end.

## Disagreements

* `differential_call_last`: the interpreter's `EXIT` checks the return address and ends
  with `CallOutsideTextSegment`; JIT compiled code returns into the bumper behind the last
  instruction and ends with `ExecutionOverrun`.  The tests assert that results agree.
* `memory_mapping_gaps`: the comment on `MemoryRegion` says that gaps are not mapped and
  accessing them is an access violation; only the first byte of an access is tested.
* `analysis_calls`: with static syscalls the target of a call is computed from the
  number of the instruction and not from its slot; behind a lddw it is another one.

Met while modelling, and visible in the modules although no run states them:

* A comment in `relocate` says that all function names of the symbol table are
  registered; a key that is already there keeps its generated name
  (`RegisterFunction`).
* A comment in `parse_ro_sections` says that grouped read-only sections have nothing
  else among them; they are grouped in the table, and one without bytes of its own lets
  the borrowed range cover bytes of another section (`CanBorrow`).
* No constructor compares the length of a region with its slot, nor with the end of the
  address space, as `replace_region` does for aligned regions.  A region that reaches
  beyond its slot, or the last address, is translated at its first byte and refused, or
  answered by another region, at a later one.  `AccessIsBytewise` says so in its
  hypotheses, which the attempt to prove it without them brought out.
* `AlignedMemory` says that its slices are aligned; `get_mem_zeroed` computes the offset
  before the vector grows by it and may move (`GetMemZeroed`; `ContentsAsWritten` leaves
  this memory out).
* The successors of a block leave out the block behind it when the block itself starts a
  function (`Destinations`).
* `dominator_parent` is documented as the immediate dominator; in a component with
  several entries it can be one further up (`DominatorsExact` says where it is exact).
* `dfg_forward_edges` is documented as keyed by the source of an edge; an edge that was
  handed on keeps its first source (`Handed`).
* V2's loads and stores have opcodes that are arithmetic elsewhere and are bound as such
  in the data flow, so that loads depend on no store (`Arm`, `DataArm`).  A callx of r6..r9
  is not bound as a read of that register.
* `execute_program` does not reset `call_depth`.  An execution behind one that failed inside
  calls returns into them in the interpreter, and past the epilogue in compiled code; if they
  take every frame a call panics in the interpreter (`leftover`).
* A call relocated to a symbol with the name entrypoint leads to the entry of the file header
  and not to that symbol (`CallsResolve`).
* Debugger: a breakpoint that is hit while stepping hides that the step ended the program,
  and the next step executes behind the end (`EndHidden`).  A pc is read as an address and written as an
  index.  The instruction count is read as it was before the execution, and writing it
  does nothing.  A client that detaches in the middle makes `execute` return what the
  result register holds.
* JIT: with tracing an unresolved `CALL_IMM` is traced twice by compiled code.  The code of
  a key that is both a syscall and a function takes 113 bytes with tracing, more than
  `MAX_MACHINE_CODE_LENGTH_PER_INSTRUCTION`; the loader never produces such a key.
  `ANCHOR_CALL_REG_UNSUPPORTED_INSTRUCTION` is never reached.
* Tools: a mnemonic without an opcode in a version is assembled all the same (`mul32 r, r`
  gives a load in V2).  A `call` of a label that does not start with `function_`
  registers nothing.  Before static syscalls an internal call to such a label is printed
  as a syscall.  A function may be called what the analysis calls an unreached block, and the
  listing then has two labels of one name (`Ambiguous`).  An `entrypoint` label behind a `function_` label at the same pc is lost.
  Fields an instruction does not use are not printed.

## Proofs

Everything is proved for every value of the constants that satisfies the named
assumptions (`ConfigAssumption`, `ArithAssumption`, `SyscallAssumption` in `Sbpf`, those in
`Interpreter`, `Verifier`, `MemoryRegion`, `MemoryMapping`, `AlignedMemory` and `JitPages`), which TLC evaluates in the runs.

| theorem | module | says |
|---|---|---|
| `VerifierDecides`, `VerifierBlames` | `VerifierProofs` | the scan decides `Accepts`; an error names the first fault |
| `TypeCorrect`, `MeterSafe`, `FrameAvailable`, `CallsAlwaysNested`, `AcceptedProgramsNeverPanic`, `SavedFramesStable` | `InterpreterProofs` | the interpreter's invariants, any accepted program, budget, depth and number of executions, whatever the earlier ones ended with |
| `InterpreterImplements` | `InterpreterProofs` | the interpreter implements `Execution`, but for beginning with calls left over and the call that finds every frame taken by them |
| `OverrunAlwaysBounded`, `HostStackAlwaysMatches` | `JitProofs` | compiled code stops in time; its host stack has a frame for every call since the execution began |
| `CompiledImplements` | `JitProofs` | compiled code implements `Execution` in executions that begin at depth zero |
| `EnginesAlwaysAgree` | `DifferentialProofs` | in the first execution both engines return the same result, memory, cost and final pc |
| `CodeOverrunBounded`, `CodeStackMatches`, `CodeImplementsExecution` | `DifferentialProofs` | what `JitProofs` shows, for compiled code beside the interpreter, as `engines` checks it |
| `EndIsReported`, `ContinueStops`, `DebuggingUndisturbed` | `InterpreterProofs` | the debugger reports every end, stops at every breakpoint and changes nothing by looking, but where a breakpoint hides the end |
| `OwnerAlwaysFound`, `NeverAliased`, `AccessesBytewise` | `MemoryMappingProofs` | an address is looked up in its region, no byte is reached twice, an access is that of its bytes |
| `SliceFaithful`, `WritesStayInPlace` | `AlignedMemoryProofs` | the slice is what was written and stays where it is |
| `PagesAlwaysAccounted`, `CompiledAlwaysSealed` | `JitPagesProofs` | no page is lost or shared, offered code is sealed |

**Verifier.**  `ScanInv` says that the slots below `insn_ptr` are valid instructions or
second halves, that `insn_ptr` is not at a second half, and what an error means.  The
second clause is needed because the loop looks at one slot more only for lddw.

**Interpreter.**  `RefInv` is the type invariant, `MeterConsistent`, and what the registers
and frames keep of r10 and r6 (`KeptFramePointer`, `KeptR6`).  `IndInv` adds `DepthInv`,
`FramesNested` and `NeverInvalid`.  `DepthInv` is `FreeFrame` (depth is below the limit while
running, unless the execution began with every frame taken) and `SucceedsAtDepthZero`.  What
an execution that failed leaves is part of the invariant, as the next one begins with it:
`FramesNested` holds of the calls left over, though they have nobody to return to.  It needs
that r10 is written by no data instruction in a version with fixed frames, which follows
from the verifier's `check_registers`.  `AcceptedRegisters`, `AcceptedJump` and
`AcceptedLoadDoubleWord` say what acceptance means for the instruction at a pc, with the
case of the second slot of a lddw, which only callx reaches.

**The interpreter implements `Execution`.**  The mapping needs `RefInv` and, for the panic,
`FreeFrame`.  One lemma per action shows the step of the abstract machine it
stands for; `ExecuteProgram` at depth zero is its start, `StepExceeded` its stop, `Finish` a
stutter.  An execution with calls left over begins with a step of its own (`BeginsWithCalls`);
from there on its steps are those of a machine in the middle of these calls.

**Compiled code.**  `JitInv` has seven parts: types; `Metered` (`meter` reaches no further
than the pc plus what remains of the budget); `CallSites` and `Balanced` (the host stack
and `leftover` add up to `call_depth`, and each entry belongs to a call);
`Compiling` and `Windows` (never more than `CheckpointDistance` slots in a row ask nothing of
the meter, which the compiler knows from where it validated last); and `Straight` (from
where `meter` points up to the pc only such slots have been executed).  The bound on the overrun follows from
the last two.  The theorems assume `JitConfig`: accepted programs, and budgets that leave
room for a pc in `MeterWord` values, without which the meter wraps around; `Differential`
assumes the same, so TLC evaluates it.  `CompiledImplements` also assumes `ReturnsInside`,
that no program ends in a call: `differential_call_last` shows that it is false without.

**The engines agree.**  `EnginesAgree` relates the last states of two executions that ran
one after the other, so no step of either engine says anything about it.  What connects them
is that `Execution` is deterministic: `After(p, s)` is the state behind a running one
(`Determined`: every `Machine!Next` goes there).  Each engine is followed on its own.  In
`InterpreterProofs` the invariant `FirstRun` says that the first execution of a VM has a
`History`: a function `h` with `h[0]` the first state of the machine, each state
`After` the one before it, the present state at index `n`, and a trace of the states that
executed an instruction.  In `JitProofs` it says that for every `Course`, a history from the
same first state to a halted one, the compiled code is somewhere on it.  The interpreter's
history is existential and the compiled code's universal, which is why no invariant has to
speak of both: when both are done, the interpreter's history is a course, `CourseEnds` puts the
compiled code at its end, and the two last states are equal.  Beyond the end of the budget
the compiled code goes on while the machine is at its last state before `Exceeded`; that is
`Left = 0` in `RunDetermined`, and why its trace may be longer.  `DifferentialProofs` composes
the two: `BothInv` is `IndInv` and `FirstRun` of the interpreter, `JitInv` and `FirstRun` of
the compiled code, and `Turns`, that the compiled code starts when the interpreter is done and
on the same budget.  `JitProofs` is instantiated there, and the `Same` lemmas identify its
definitions with those of the instance of `Jit` that the run checks.  `CompiledReturn` is the
one hypothesis: no compiled program ends in a call.  `EndsInNoCall` in the `engines` run
meets it, and `differential_call_last` shows that the statement is false without it.  The
statement is about first executions: later ones start from registers, memory and calls that
the earlier ones left.

**The debugger.**  `DebugInv` has three parts.  `SessionInv` says, for every place in the
loop of `execute`, what has become of the program: between a step and its report it may have
stopped, elsewhere in the loop it runs, and the session ends only with a report or with a
client that left.  `ResumedInv` says that a program running in `Continue` is not at a
breakpoint, unless it was resumed there; the breakpoints change only in the idle state, from
which the program is resumed.  The last part is `RefInv` as long as nothing is `disturbed`,
and then `InterpreterImplements` covers every step but the report that hides an end.
`RefInv` alone survives that report, for the program then runs at whatever depth it ended;
`FreeFrame` is kept as long as no end was `hidden`.

**Memory mapping.**  Two things are proved apart.  The first is what the recursive functions
of the search compute, for every number of regions: `NatSets` and `LeastNat` give induction
in the form of sets of naturals, which needs no operator as a parameter, and with it the
recursive equations of `EytzingerWalk`, `Descend` and `Strip`, the shape of a walk
(`WalkShapes`: the walk from a node numbers the nodes below it, each once, with consecutive
regions), and `SearchFinds`: over sorted addresses the search ends at the last one that is
not greater, or at none.  The second is the invariant `MInv`: the regions are numbered from
zero (`Numbered`), sorted, apart and mirrored by the two arrays of the search
(`Searchable`), an entry of the cache is empty or the present range of the region it names
(`Cached`), and an aligned region is in its slot (`Slotted`,
which holds only for the slots the constructor's loop has passed).  `Cached` is why
`replace_region` must flush and why it compares with the next region; the arrays of the
search survive it because it does not move the start of a region.  `NoAliasing` assumes
`HostApart`, that the host hands out memory that does not overlap, which no code checks.

**Aligned memory.**  `MemoryInv` says what the allocation holds beyond the length: it
follows the alignment offset, has room up to the maximum, and is zero where `fill_write`
may later expose it without writing.

**Pages.**  `PageInv` gives every phase of `jit_compile` and `drop` the pages it holds and
those it has still to give back, `SealInv` adds their protection and contents.  The pages of
different slots are disjoint, so that no step of one thread reaches another's.

Model-checked only:

* liveness (`BothTerminate`, `CallsReturn`, `FlowEnds`, `ControlReturns`), which the prover
  does not do;
* `machine_code`: `Bitwise` and recursive operators are out of the prover's reach;
* the graph searches, the data flow and the folds of the loader,
  which compute over data by recursion and would need induction over it;
* the loader's invariants and the toolchain.

## Not modelled

`MemoryMapping::Identity`, the reserved version, `emit_stopwatch`, code compiled with
`enable_address_translation` off, `DynamicAnalysis`, `aarch64.rs`, whose items nothing uses.
Of the loader: the bytes of strings, and a hash of a pc that equals the hash of
"entrypoint", which `unregister_function` would then remove (the instances assume there is
none; the pc is 184599424, in a text of more than a gigabyte).  A file is shorter than a region.  Of the static analysis: the flattened call graph
and the output of graphs.  Of the tools: the character grammar of `asm_parser.rs` and a
negative count of `.fill`.  The Windows variant of the page functions.  The engines' models
step by step run with the meter and tracing on; the others are in `machine_code`.

## Plan

1. A loaded executable handed on to the engines, with the keys of its registry.
2. Memory mapping under both engines in place of the one cell.
3. The flattened call graph.
4. Proofs: keys of `LenientLoader`, adjacency in `StrictLoader`, agreement of later
   executions.
