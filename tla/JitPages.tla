------------------------------ MODULE JitPages ------------------------------
(***************************************************************************)
(* The pages of a JitProgram (jit.rs, memory_management.rs): one mapping   *)
(* holds the pc_section and behind it, from a page boundary on, the        *)
(* text_section.  Executables are compiled, compiled again and dropped by  *)
(* threads of their own.  Every libc call is a step of its own, may fail,  *)
(* and is tried RETRY_COUNT times; pages that were given back may be       *)
(* handed to another thread before the next call.                          *)
(***************************************************************************)
EXTENDS Integers, FiniteSets

CONSTANTS
    Executables,
    PageCount,      \* pages of the address space
    page_size,      \* in entries of the pc_section
    PcCounts,       \* numbers of instructions a program may have
    CodeSizes       \* estimates JitCompiler::new may make of the code's length

ASSUME PagesAssumption ==
    /\ PageCount \in Nat /\ page_size \in Nat \ {0}
    /\ PcCounts \subseteq Nat \ {0} /\ CodeSizes \subseteq Nat \ {0}

VARIABLES
    prot,           \* protection of every page, "none" where nothing is mapped
    memory,         \* what every cell of the pages holds
    compiled,       \* compiled_program of every Executable
    work,           \* the JitProgram a thread builds or drops
    usage,          \* text_section_usage, while seal frees the pages behind it
    call,           \* the libc call or phase a thread is in
    tries,          \* failed attempts at that call
    leaked          \* pages whose release was given up

pages == <<prot, memory>>
vars == <<pages, compiled, work, usage, call, tries, leaked>>

RETRY_COUNT == 3
Pages == 0..PageCount-1
NoProgram == [raw |-> 0, pc |-> 0, text |-> 0]

RoundToPageSize(value) == ((value + page_size - 1) \div page_size) * page_size

(* The sections of a program, in pages and in cells.                       *)
PcSize(p) == RoundToPageSize(p.pc)
MemSize(p) == PcSize(p) + RoundToPageSize(p.text)
Span(from, size) == from..from + size - 1
PagesOf(from, size) == {c \div page_size : c \in Span(from, size)}
PcPages(p) == PagesOf(p.raw, PcSize(p))
TextPages(p) == PagesOf(p.raw + PcSize(p), RoundToPageSize(p.text))
Held(p) == PagesOf(p.raw, MemSize(p))

(* What a cell holds: part of a section of e, a debugger trap, or nothing. *)
Cell(kind, e) == [kind |-> kind, of |-> e]
Trap == [kind |-> "trap", of |-> "all"]
Zero == [kind |-> "zero", of |-> "all"]

Protect(set, flags) == prot' = [g \in Pages |-> IF g \in set THEN flags ELSE prot[g]]

(* What mmap and munmap do to a set of pages.                              *)
Remap(set, flags) ==
    /\ Protect(set, flags)
    /\ memory' = [c \in DOMAIN memory |-> IF c \div page_size \in set THEN Zero ELSE memory[c]]

Init ==
    /\ prot = [g \in Pages |-> "none"]
    /\ memory = [c \in Span(0, PageCount * page_size) |-> Zero]
    /\ compiled = [e \in Executables |-> NoProgram]
    /\ work = [e \in Executables |-> NoProgram]
    /\ usage = [e \in Executables |-> 0]
    /\ call = [e \in Executables |-> "none"]
    /\ tries = [e \in Executables |-> 0]
    /\ leaked = {}

Enter(e, next) == call' = [call EXCEPT ![e] = next] /\ tries' = [tries EXCEPT ![e] = 0]

-----------------------------------------------------------------------------
(* Executable::jit_compile, JitCompiler::new and JitProgram::new up to the *)
(* call of mmap.                                                           *)
JitCompile(e, pc, code_size) ==
    /\ call[e] = "none"
    /\ work' = [work EXCEPT ![e] = [raw |-> 0, pc |-> pc, text |-> RoundToPageSize(code_size)]]
    /\ Enter(e, "mmap")
    /\ UNCHANGED <<pages, compiled, usage, leaked>>

(* mmap finds pages nobody holds, and clears them.                         *)
AllocatePages(e) ==
    /\ call[e] = "mmap"
    /\ \E first \in Pages :
        LET p == [work[e] EXCEPT !.raw = first * page_size]
        IN  /\ Held(p) \subseteq {g \in Pages : prot[g] = "none"}
            /\ work' = [work EXCEPT ![e] = p]
            /\ Remap(Held(p), "rw")
    /\ Enter(e, "compile")
    /\ UNCHANGED <<compiled, usage, leaked>>

(* JitCompiler::compile runs out of room, or emits n cells of code; seal   *)
(* fills the last page with traps.                                         *)
ExhaustedTextSegment(e) ==
    /\ call[e] = "compile"
    /\ Enter(e, "drop")
    /\ UNCHANGED <<pages, compiled, work, usage, leaked>>

EmitUntrapped(e, n) ==      \* mutant: the rest of the last page is not filled
    /\ call[e] = "compile" /\ n <= work[e].text
    /\ LET p == work[e] text == p.raw + PcSize(p)
       IN  memory' = [c \in DOMAIN memory |->
                         CASE c \in Span(p.raw, p.pc) -> Cell("pc", e)
                           [] c \in Span(text, n) -> Cell("code", e)
                           [] OTHER -> memory[c]]
    /\ IF work[e].text > RoundToPageSize(n)
       THEN Enter(e, "munmap_tail") /\ usage' = [usage EXCEPT ![e] = n] /\ UNCHANGED work
       ELSE Enter(e, "protect_pc") /\ work' = [work EXCEPT ![e].text = n] /\ UNCHANGED usage
    /\ UNCHANGED <<prot, compiled, leaked>>

Emit(e, n) ==
    /\ call[e] = "compile" /\ n <= work[e].text
    /\ LET p == work[e] text == p.raw + PcSize(p)
       IN  memory' = [c \in DOMAIN memory |->
                         CASE c \in Span(p.raw, p.pc) -> Cell("pc", e)
                           [] c \in Span(text, n) -> Cell("code", e)
                           [] c \in Span(text + n, RoundToPageSize(n) - n) -> Trap
                           [] OTHER -> memory[c]]
    /\ IF work[e].text > RoundToPageSize(n)
       THEN Enter(e, "munmap_tail") /\ usage' = [usage EXCEPT ![e] = n] /\ UNCHANGED work
       ELSE Enter(e, "protect_pc") /\ work' = [work EXCEPT ![e].text = n] /\ UNCHANGED usage
    /\ UNCHANGED <<prot, compiled, leaked>>

(* seal gives back the pages the code did not need, and from there on the  *)
(* text_section is as long as the code.                                    *)
FreeTailKept(e) ==          \* mutant: text_section keeps its length
    /\ call[e] = "munmap_tail"
    /\ LET p == work[e] size == RoundToPageSize(usage[e])
       IN  Remap(PagesOf(p.raw + PcSize(p) + size, p.text - size), "none")
    /\ usage' = [usage EXCEPT ![e] = 0]
    /\ Enter(e, "protect_pc")
    /\ UNCHANGED <<compiled, work, leaked>>

FreeTail(e) ==
    /\ call[e] = "munmap_tail"
    /\ LET p == work[e] size == RoundToPageSize(usage[e])
       IN  Remap(PagesOf(p.raw + PcSize(p) + size, p.text - size), "none")
    /\ work' = [work EXCEPT ![e].text = usage[e]]
    /\ usage' = [usage EXCEPT ![e] = 0]
    /\ Enter(e, "protect_pc")
    /\ UNCHANGED <<compiled, leaked>>

ProtectPcSection(e) ==
    /\ call[e] = "protect_pc"
    /\ Protect(PcPages(work[e]), "r")
    /\ Enter(e, "protect_text")
    /\ UNCHANGED <<memory, compiled, work, usage, leaked>>

(* With its last call seal returns, and jit_compile drops the program that *)
(* the new one replaces.                                                   *)
ProtectTextSection(e) ==
    /\ call[e] = "protect_text"
    /\ Protect(TextPages(work[e]), "rx")
    /\ compiled' = [compiled EXCEPT ![e] = work[e]]
    /\ work' = [work EXCEPT ![e] = compiled[e]]
    /\ Enter(e, IF compiled[e] = NoProgram THEN "none" ELSE "drop")
    /\ UNCHANGED <<memory, usage, leaked>>

(* The Executable goes, and its program with it.                           *)
DropExecutable(e) ==
    /\ call[e] = "none" /\ compiled[e] # NoProgram
    /\ compiled' = [compiled EXCEPT ![e] = NoProgram]
    /\ work' = [work EXCEPT ![e] = compiled[e]]
    /\ Enter(e, "drop")
    /\ UNCHANGED <<pages, usage, leaked>>

(* JitProgram::drop                                                        *)
Drop(e) ==
    /\ call[e] = "drop"
    /\ Remap(Held(work[e]), "none")
    /\ work' = [work EXCEPT ![e] = NoProgram]
    /\ Enter(e, "none")
    /\ UNCHANGED <<compiled, usage, leaked>>

(* An attempt at a libc call fails (libc_error_guard!).  After the last    *)
(* one new returns an error, seal returns one and the program is dropped,  *)
(* and drop ignores it.                                                    *)
Calls == {"mmap", "munmap_tail", "protect_pc", "protect_text", "drop"}

LibcFailsForever(e) ==      \* mutant: the failed attempts are not counted
    /\ call[e] \in Calls
    /\ UNCHANGED vars

LibcFails(e) ==
    /\ call[e] \in Calls
    /\ tries[e] + 1 < RETRY_COUNT
    /\ tries' = [tries EXCEPT ![e] = @ + 1]
    /\ UNCHANGED <<pages, compiled, work, usage, call, leaked>>

LibcInvocationFailed(e) ==
    /\ call[e] \in Calls
    /\ tries[e] + 1 = RETRY_COUNT
    /\ Enter(e, IF call[e] \in {"mmap", "drop"} THEN "none" ELSE "drop")
    /\ leaked' = IF call[e] = "drop" THEN leaked \cup Held(work[e]) ELSE leaked
    /\ work' = IF call[e] \in {"mmap", "drop"} THEN [work EXCEPT ![e] = NoProgram] ELSE work
    /\ usage' = [usage EXCEPT ![e] = 0]
    /\ UNCHANGED <<pages, compiled>>

Step(e) ==
    \/ AllocatePages(e) \/ ExhaustedTextSegment(e)
    \/ \E n \in 1..work[e].text : Emit(e, n)
    \/ FreeTail(e) \/ ProtectPcSection(e) \/ ProtectTextSection(e) \/ Drop(e)
    \/ LibcFails(e) \/ LibcInvocationFailed(e)

Next ==
    \E e \in Executables :
        \/ \E pc \in PcCounts, code_size \in CodeSizes : JitCompile(e, pc, code_size)
        \/ DropExecutable(e)
        \/ Step(e)

(* A thread that is compiling or dropping goes on.                         *)
Spec == Init /\ [][Next]_vars /\ \A e \in Executables : WF_vars(Step(e))

-----------------------------------------------------------------------------
(* The pages that the program e offers, and the one e builds or drops,     *)
(* would give back now.                                                    *)
Slots == Executables \X {"compiled", "work"}
HeldIn(slot) ==
    IF slot[2] = "compiled" THEN Held(compiled[slot[1]])
    ELSE IF call[slot[1]] = "mmap" THEN {}
    ELSE Held(work[slot[1]])

(* Every mapped page is one some program still holds, or one whose munmap  *)
(* failed RETRY_COUNT times: no path through seal, its errors and drop     *)
(* loses a page or forgets that it gave one back.  And no page is held     *)
(* twice: what new, seal and drop compute from the lengths of the slices,  *)
(* at whatever call a failure interrupts them, never reaches into a        *)
(* mapping of another program.                                             *)
PagesAccounted ==
    /\ {g \in Pages : prot[g] # "none"} = leaked \cup UNION {HeldIn(s) : s \in Slots}
    /\ \A s, t \in Slots : s # t => HeldIn(s) \cap HeldIn(t) = {}

(* A program an Executable offers for execution is sealed: its table is    *)
(* read-only, its code executable and not writable, what follows the code  *)
(* traps, and all of it is its own, whatever other threads compile.        *)
CompiledSealed ==
    \A e \in Executables : compiled[e] # NoProgram =>
        LET p == compiled[e] text == p.raw + PcSize(p)
        IN  /\ \A g \in PcPages(p) : prot[g] = "r"
            /\ \A g \in TextPages(p) : prot[g] = "rx"
            /\ \A c \in Span(p.raw, p.pc) : memory[c] = Cell("pc", e)
            /\ \A c \in Span(text, p.text) : memory[c] = Cell("code", e)
            /\ \A c \in Span(text + p.text, RoundToPageSize(p.text) - p.text) : memory[c] = Trap

(* jit_compile and drop return, however often libc fails.                  *)
CallsReturn == \A e \in Executables : call[e] # "none" ~> call[e] = "none"

=============================================================================
