---------------------------- MODULE StrictLoader ----------------------------
(***************************************************************************)
(* Executable::load_with_strict_parser (elf.rs), the loader of SBPFv3 and  *)
(* later: no relocation, one program header for the read-only data and one *)
(* for the code, adjacent in the file.  Offsets and addresses are in units *)
(* of half an instruction.                                                 *)
(***************************************************************************)
EXTENDS FunctionRegistry, Sequences

CONSTANTS
    EhdrSize, PhdrSize, RegionSize

InsnSize == 2
RodataStart == 0
BytecodeStart == RegionSize
Expected == <<[p_flags |-> "R", p_vaddr |-> RodataStart], [p_flags |-> "X", p_vaddr |-> BytecodeStart]>>

VARIABLES
    file, phase, next,
    expected_offset,
    ro_section, text_section_range, entry_pc,   \* fields of the Executable
    function_registry,
    error

vars == <<file, phase, next, expected_offset, ro_section, text_section_range,
          entry_pc, function_registry, error>>

Span(start, len) == [start |-> start, end |-> start + len]
TableEnd == EhdrSize + PhdrSize * file.e_phnum
HasFunctionBit(symbol) == symbol.type \in {"FUNC", "WEAK_FUNC", "SECTION"}
Minus(a, b) == IF a < b THEN 0 ELSE a - b       \* saturating_sub

Init ==
    /\ expected_offset = 0 /\ entry_pc = 0
    /\ ro_section = Span(0, 0) /\ text_section_range = Span(0, 0)
    /\ function_registry = NoFunctions

Fail(e) ==
    /\ phase' = "failed" /\ error' = e
    /\ UNCHANGED <<file, next, expected_offset, ro_section, text_section_range, entry_pc,
                   function_registry>>

SkipsRodata == file.phdrs[1].p_flags # Expected[1].p_flags

ParseFileHeader ==
    /\ phase = "strict_header"
    /\ IF file.len < EhdrSize THEN Fail("OutOfBounds")
       ELSE IF ~file.ident \/ file.e_phnum = 0 \/ TableEnd > file.len
       THEN Fail("InvalidFileHeader")
       ELSE IF ~SkipsRodata /\ file.e_phnum < 2 THEN Fail("InvalidFileHeader")
       ELSE /\ phase' = "program_headers" /\ expected_offset' = TableEnd
            /\ UNCHANGED <<file, next, ro_section, text_section_range, entry_pc,
                           function_registry, error>>

(* The loop is a zip: it takes as many headers as are expected.            *)
ExpectedHeaders == IF SkipsRodata THEN <<Expected[2]>> ELSE Expected

MalformedTooLong(p, e) ==       \* mutant: the size is not compared with the file
    \/ ~p.load \/ p.p_flags # e.p_flags \/ p.p_offset # expected_offset
    \/ p.p_offset >= file.len \/ p.p_offset % InsnSize # 0
    \/ p.p_vaddr # e.p_vaddr \/ p.p_filesz # p.p_memsz \/ p.p_filesz % InsnSize # 0
    \/ p.p_memsz >= RegionSize

Malformed(p, e) ==
    \/ ~p.load                  \* p_type is not PT_LOAD, or p_paddr not the address
    \/ p.p_flags # e.p_flags
    \/ p.p_offset # expected_offset
    \/ p.p_offset >= file.len
    \/ p.p_offset % InsnSize # 0
    \/ p.p_vaddr # e.p_vaddr
    \/ p.p_filesz # p.p_memsz
    \/ p.p_filesz > Minus(file.len, p.p_offset)
    \/ p.p_filesz % InsnSize # 0
    \/ p.p_memsz >= RegionSize

ParseProgramHeader ==
    /\ phase = "program_headers" /\ next <= Len(ExpectedHeaders)
    /\ IF Malformed(file.phdrs[next], ExpectedHeaders[next])
       THEN Fail("InvalidProgramHeader")
       ELSE /\ expected_offset' = expected_offset + file.phdrs[next].p_filesz
            /\ next' = next + 1
            /\ UNCHANGED <<file, phase, ro_section, text_section_range, entry_pc,
                           function_registry, error>>

Bytecode == file.phdrs[IF SkipsRodata THEN 1 ELSE 2]
FileRange(p) == Span(p.p_offset, p.p_filesz)

(* The entry, measured at the last unit of its instruction, is in the      *)
(* code, and is aligned.                                                   *)
EntryOutside ==
    \/ file.e_entry + InsnSize - 1 < Bytecode.p_vaddr
    \/ file.e_entry + InsnSize - 1 >= Bytecode.p_vaddr + Bytecode.p_memsz
    \/ file.e_entry % InsnSize # 0

TargetPc(addr) == Minus(addr, Bytecode.p_vaddr) \div InsnSize
AsKey(pc) == pc % RegionSize        \* as u32: a region has 2^32 bytes

SetSections ==
    /\ phase = "program_headers" /\ next > Len(ExpectedHeaders)
    /\ IF EntryOutside THEN Fail("InvalidFileHeader")
       ELSE /\ ro_section' = IF SkipsRodata THEN Span(TableEnd, 0) ELSE FileRange(file.phdrs[1])
            /\ text_section_range' = FileRange(Bytecode)
            /\ entry_pc' = TargetPc(file.e_entry)
            /\ phase' = "strict_symbols" /\ next' = 1
            /\ UNCHANGED <<file, expected_offset, function_registry, error>>

(* With labels, the functions of the symbol table are registered under     *)
(* their program counters.  Neither the tables nor a collision are handled *)
(* as errors: unwrap panics.  Files whose tables cannot be read are left   *)
(* out.                                                                    *)
RegisterSymbol ==
    /\ phase = "strict_symbols" /\ file.labels /\ next <= Len(file.symbols)
    /\ LET symbol == file.symbols[next]
           pc == TargetPc(symbol.st_value)
           r == RegisterFunction(function_registry, AsKey(pc), Named(symbol.name), pc)
       IN  /\ function_registry' = IF HasFunctionBit(symbol) THEN r.map ELSE function_registry
           /\ error' = IF HasFunctionBit(symbol) /\ r.error # "none" THEN "panic" ELSE error
           /\ phase' = IF error' = "panic" THEN "failed" ELSE phase
           /\ next' = next + 1
           /\ UNCHANGED <<file, expected_offset, ro_section, text_section_range, entry_pc>>

Loaded ==
    /\ phase = "strict_symbols" /\ (file.labels => next > Len(file.symbols))
    /\ phase' = "loaded"
    /\ UNCHANGED <<file, next, expected_offset, ro_section, text_section_range, entry_pc,
                   function_registry, error>>

Next == ParseFileHeader \/ ParseProgramHeader \/ SetSections \/ RegisterSymbol \/ Loaded

-----------------------------------------------------------------------------
TextLen == text_section_range.end - text_section_range.start

(* The read-only data and the code of a loaded program follow the headers  *)
(* and one another in the file, and end inside it, so that get_text_bytes  *)
(* and get_ro_section never index out of bounds and share no byte; mapped, *)
(* the data ends before the code starts and the code before the stack; and *)
(* the entrypoint is a whole instruction of the code.                      *)
StrictImageSound ==
    phase = "loaded" =>
        /\ ro_section.start = TableEnd
        /\ ro_section.start <= ro_section.end
        /\ text_section_range.start = ro_section.end
        /\ text_section_range.end <= file.len
        /\ RodataStart + ro_section.end - ro_section.start <= BytecodeStart
        /\ BytecodeStart + TextLen <= 2 * RegionSize
        /\ (entry_pc + 1) * InsnSize <= TextLen

=============================================================================
